---- MODULE Spec2Model ----
(***************************************************************************)
(* Five9 enterprise pipeline: the bounded retry executor                   *)
(* (src/utils/retry.ts) and the per-run orchestration state machine        *)
(* (src/pipeline/orchestrator.ts) over the SFTP session                    *)
(* (src/services/sftp.service.ts).                                         *)
(*                                                                         *)
(* SpecRetry : one call of retryWithBackoff against an arbitrary operation *)
(* Spec      : one PipelineOrchestrator instance, start()/stop() callers   *)
(* SpecErr   : the error factories of src/utils/errors.ts                   *)
(* SpecList  : one call of SftpService.listFiles against a remote tree     *)
(* SpecReuse : two start() calls in turn on one orchestrator instance      *)
(* SpecSnapshot : getState() and its caller beside one start() call        *)
(* SpecSftp  : the methods of one SftpService called one after another     *)
(* SpecLive  : Spec under fair scheduling of the pending steps of a run    *)
(* SpecOverlap : a second start() entered while the first is in progress   *)
(* SpecNotify : the notify methods of one NotificationService              *)
(***************************************************************************)
EXTENDS Integers, Sequences, FiniteSets, TLC

\* ---------------------------------------------------------------- bounds
MaxRetriesBound == 3

\* items in the catalog of one run
MaxItems == 2

\* largest maxRetries of the SFTP service's retry options
MaxSftpRetries == 1

\* largest `retries` argument of NotificationService.sendToSlack
MaxSlackRetries == 3

\* delayMs values tried by the retry harness
DelayChoices == {100, 250}

VARIABLES
    \* ---- retryWithBackoff (one call)
    options,      \* RetryOptions of the call
    attempt,      \* loop variable `attempt`
    lastError,    \* `lastError`
    rpc,          \* position of the call: entry, pending, sleeping, resolved, rejected
    calls,        \* number of invocations of fn so far
    inflight,     \* number of invocations of fn not yet settled
    result,       \* value the call resolved with
    rejection,    \* error the call rejected with
    waited,       \* sum of the delays slept so far
    trace,        \* history of the call: invocations, failures, callbacks, sleeps
    \* ---- PipelineOrchestrator instance and its SftpService
    state,        \* PipelineOrchestrator.state
    isConnected,  \* SftpService.isConnected
    sftpRetry,    \* SftpService.retryOptions
    spaces,       \* whether spacesService is configured (not null)
    run,          \* per start() call: position, catalog, loop index, retry attempt, history
    stopPc,       \* position of the stop() caller: idle, or awaiting client.end()
    metrics,      \* MetricsCollector: files_processed_total by status label
    scratch,      \* local files in downloadDir left by the pipeline
    snapshot,     \* the last value getState() returned to its caller, if any
    \* ---- SftpService.listFiles (one call) against a remote tree
    remote,       \* the remote store: directory path -> entries, as client.list returns them
    maxFiles,     \* the maxFiles argument of the call
    lpc,          \* position of the call: entry, pending, sleeping, resolved, rejected
    lattempt,     \* loop variable `attempt` of the call's retryWithBackoff
    listed,       \* FileInfo[] the call resolved with
    listError,    \* error the call rejected with
    walk,         \* the latest listRecentFiles attempt: its list calls, collection, warning
    listCalls,    \* paths passed to client.list over all attempts of the call
    warnings,     \* number of 'SFTP listing capped' warnings logged
    \* ---- error objects (src/utils/errors.ts)
    errs,         \* the error objects constructed so far
    json,         \* the last toJSON() result
    \* ---- SftpService methods called one after another
    sess,         \* the method call in progress or last settled, and its outcome
    clientCalls,  \* the ssh2-sftp-client calls made by that method call
    \* ---- NotificationService instance
    slack         \* the webhook setting, and the notify call in progress or last settled

retryVars == <<options, attempt, lastError, rpc, calls, inflight, result, rejection, waited, trace>>

orchVars == <<state, isConnected, sftpRetry, spaces, run, stopPc, metrics, scratch, snapshot>>

listVars == <<remote, maxFiles, lpc, lattempt, listed, listError, walk, listCalls, warnings>>

errVars == <<errs, json>>

sftpVars == <<sess, clientCalls>>

notifyVars == <<slack>>

vars == <<options, attempt, lastError, rpc, calls, inflight, result, rejection, waited, trace,
          state, isConnected, sftpRetry, spaces, run, stopPc, metrics, scratch, snapshot,
          remote, maxFiles, lpc, lattempt, listed, listError, walk, listCalls, warnings,
          errs, json, sess, clientCalls, slack>>

None == [cls |-> "none", code |-> "none", message |-> <<>>, context |-> "none",
         isRetryable |-> FALSE, obj |-> 0]

\* the record of a listRecentFiles attempt before any attempt was made
NoWalk == [files |-> <<>>, collected |-> <<>>, calls |-> <<>>, events |-> <<>>,
           warned |-> FALSE,
           dateFolders |-> <<>>, failed |-> FALSE]

\* ------------------------------------------------------------ thrown values
\* What an operation can throw: a BaseError (retryable or not), a plain
\* Error, or a value that is not an Error at all.  obj is the object identity.
ThrownKinds == {"retryableBase", "fatalBase", "plainError", "value"}

Thrown(kind, k) ==
    CASE kind = "retryableBase" ->
           [cls |-> "BaseError", code |-> "E_TRANSIENT", message |-> <<"Fail", k>>,
            context |-> "ctx", isRetryable |-> TRUE, obj |-> k]
      [] kind = "fatalBase" ->
           [cls |-> "BaseError", code |-> "E_FATAL", message |-> <<"Fail", k>>,
            context |-> "ctx", isRetryable |-> FALSE, obj |-> k]
      [] kind = "plainError" ->
           [cls |-> "Error", code |-> "none", message |-> <<"Fail", k>>,
            context |-> "none", isRetryable |-> FALSE, obj |-> k]
      [] OTHER ->
           [cls |-> "value", code |-> "none", message |-> <<"Fail", k>>,
            context |-> "none", isRetryable |-> FALSE, obj |-> k]

InstanceOfError(e) == e.cls \in {"Error", "BaseError"}

InstanceOfBaseError(e) == e.cls = "BaseError"

\* retry.ts:28  error instanceof Error ? error : new Error(String(error))
AsError(error) ==
    IF InstanceOfError(error) THEN error
    ELSE [cls |-> "Error", code |-> "none", message |-> error.message,
          context |-> "none", isRetryable |-> FALSE, obj |-> 0 - error.obj]

\* retry.ts:31  error instanceof BaseError && !error.isRetryable
IsNonRetryable_noInstanceOf(error) == ~error.isRetryable

IsNonRetryable_never(error) == FALSE

IsNonRetryable(error) == InstanceOfBaseError(error) /\ ~error.isRetryable

\* retry.ts:44  attempt === maxRetries
Exhausted_offByOne(att, maxRetries) == att + 1 >= maxRetries

Exhausted(att, maxRetries) == att = maxRetries

\* retry.ts:24  attempt <= maxRetries
LoopCond(att, maxRetries) == att <= maxRetries

RECURSIVE Pow2(_)
Pow2(n) == IF n <= 0 THEN 1 ELSE 2 * Pow2(n - 1)

\* retry.ts:21  exponentialBackoff = true  (destructuring default)
ExponentialBackoff(opts) ==
    IF opts.exponentialBackoff = "omitted" THEN TRUE
    ELSE opts.exponentialBackoff = "true"

\* retry.ts:57
Delay_linear(delayMs, exponential, att) ==
    IF exponential THEN delayMs * (att + 1) ELSE delayMs

Delay(delayMs, exponential, att) ==
    IF exponential THEN delayMs * Pow2(att) ELSE delayMs

\* ------------------------------------------------------------ file names
\* Names are sequences of characters, so that the string tests of the code
\* are computed rather than assumed.
WavName == <<"a", ".", "w", "a", "v">>

UpperName == <<"b", ".", "W", "A", "V">>

PlayableName == <<"c", "_", "p", "l", "a", "y", "a", "b", "l", "e", ".", "w", "a", "v">>

Mp3Name == <<"d", ".", "m", "p", "3">>

RemoteNames == {WavName, UpperName, PlayableName, Mp3Name}

DotWav == <<".", "w", "a", "v">>

Playable == <<"_", "p", "l", "a", "y", "a", "b", "l", "e">>

\* String.prototype.endsWith
EndsWith(str, suffix) ==
    /\ Len(str) >= Len(suffix)
    /\ SubSeq(str, Len(str) - Len(suffix) + 1, Len(str)) = suffix

\* String.prototype.includes
Includes(str, sub) ==
    \E i \in 1..(Len(str) - Len(sub) + 1) : SubSeq(str, i, i + Len(sub) - 1) = sub

\* String.prototype.toLowerCase on the characters that occur in names
LowerChar(c) ==
    CASE c = "W" -> "w"
      [] c = "A" -> "a"
      [] c = "V" -> "v"
      [] OTHER -> c

ToLowerCase(str) == [i \in 1..Len(str) |-> LowerChar(str[i])]

\* path.posix.extname: from the last '.' on, empty when there is none or
\* when the only '.' is the first character
ExtName(str) ==
    LET dots == {i \in 1..Len(str) : str[i] = "."}
    IN IF dots = {} THEN <<>>
       ELSE LET last == CHOOSE i \in dots : \A j \in dots : j <= i
            IN IF last = 1 THEN <<>> ELSE SubSeq(str, last, Len(str))

\* sftp.service.ts:238  the catalog keeps an entry when its extension is .wav,
\* compared case-insensitively
CatalogAccepts(name) == ToLowerCase(ExtName(name)) = DotWav

CatalogNames == {n \in RemoteNames : CatalogAccepts(n)}

\* orchestrator.ts:59  processRecording returns at once for these names
ShouldSkip_anyCase(name) == Includes(name, Playable) \/ ~CatalogAccepts(name)

ShouldSkip_never(name) == FALSE

ShouldSkip(name) == Includes(name, Playable) \/ ~EndsWith(name, DotWav)

\* ----------------------------------------------------- orchestrator state
\* the start() calls an instance can receive: a first one on the fresh
\* instance and a later one on the same instance
Runs == {1, 2}

\* the catalogs listFiles can return to a run
RECURSIVE SeqsUpTo(_, _)
SeqsUpTo(S, n) ==
    IF n = 0 THEN {<<>>}
    ELSE LET shorter == SeqsUpTo(S, n - 1)
         IN shorter \cup {Append(q, x) : q \in {t \in shorter : Len(t) = n - 1}, x \in S}

Catalogs == SeqsUpTo(CatalogNames, MaxItems)

\* a start() call that has not been made
IdleRun == [pc |-> "idle", files |-> <<>>, idx |-> 0, att |-> 0, err |-> None,
            base |-> [processedCount |-> 0, failedCount |-> 0],
            stopSeen |-> FALSE, log |-> <<>>]

\* orchestrator.ts:15-20
InitialState == [isRunning |-> FALSE, shouldStop |-> FALSE,
                 processedCount |-> 0, failedCount |-> 0]

\* metrics.ts:33-38: the counter starts at zero for both status labels
NoMetrics == [success |-> 0, failure |-> 0]

\* orchestrator.ts:66-67, 81, transcription.service.ts:46: the local files of
\* a recording named a.wav
LocalPath == "a.wav"
PlayablePath == "a_playable.mp3"
TranscriptPath == "a.txt"
PlayableTranscript == "a_playable.txt"

\* orchestrator.ts:87-89: the files removed by the first n unlink calls
Unlinked(n) == {<<LocalPath, PlayablePath, TranscriptPath>>[k] : k \in 1..n}

OrchQuiet ==
    /\ state = InitialState
    /\ isConnected = FALSE
    /\ sftpRetry = [maxRetries |-> 0]
    /\ spaces = FALSE
    /\ run = [r \in Runs |-> IdleRun]
    /\ stopPc = "idle"
    /\ metrics = NoMetrics
    /\ scratch = {}
    /\ snapshot = <<>>

RetryQuiet ==
    /\ options = [maxRetries |-> 0, delayMs |-> 100,
                  exponentialBackoff |-> "omitted", onRetry |-> FALSE]
    /\ attempt = 0
    /\ lastError = None
    /\ rpc = "unused"
    /\ calls = 0
    /\ inflight = 0
    /\ result = <<>>
    /\ rejection = None
    /\ waited = 0
    /\ trace = <<>>

\* no listFiles call is in progress and the remote store is empty
ListQuiet ==
    /\ remote = (<<>> :> <<>>)
    /\ maxFiles = 0
    /\ lpc = "unused"
    /\ lattempt = 0
    /\ listed = <<>>
    /\ listError = None
    /\ walk = NoWalk
    /\ listCalls = <<>>
    /\ warnings = 0

\* no method of the service has been called
NoCall == [op |-> "none", pc |-> "idle", att |-> 0, target |-> <<>>, fails |-> 0,
           raw |-> <<>>, endThrew |-> FALSE, error |-> <<>>]

SftpQuiet ==
    /\ sess = NoCall
    /\ clientCalls = <<>>

\* a NotificationService without webhook on which nothing has been called
NoNotify == [webhook |-> FALSE, isEnabled |-> FALSE, method |-> "none", pc |-> "idle",
             retries |-> 0, attempt |-> 0, posts |-> 0, slept |-> <<>>,
             outcomes |-> <<>>, logged |-> "none"]

NotifyQuiet == slack = NoNotify

\* no error object has been constructed
ErrQuiet ==
    /\ errs = <<>>
    /\ json = <<>>

\* ------------------------------------------------------- retryWithBackoff
RetryOptionsSet ==
    [maxRetries : 0..MaxRetriesBound,
     delayMs : DelayChoices,
     exponentialBackoff : {"true", "false", "omitted"},
     onRetry : BOOLEAN]

RetryInit ==
    /\ options \in RetryOptionsSet
    /\ attempt = 0
    /\ lastError = None
    /\ rpc = "entry"
    /\ calls = 0
    /\ inflight = 0
    /\ result = <<>>
    /\ rejection = None
    /\ waited = 0
    /\ trace = <<>>
    /\ OrchQuiet
    /\ ListQuiet
    /\ ErrQuiet
    /\ SftpQuiet
    /\ NotifyQuiet

\* retry.ts:24-26: the call enters the loop and invokes fn for attempt 0
RetryEnter ==
    /\ rpc = "entry"
    /\ IF LoopCond(attempt, options.maxRetries)
       THEN /\ rpc' = "pending"
            /\ calls' = calls + 1
            /\ inflight' = inflight + 1
            /\ trace' = Append(trace, <<"invoke", calls + 1>>)
            /\ UNCHANGED rejection
       ELSE /\ rpc' = "rejected"
            /\ rejection' = [None EXCEPT !.cls = "Error"]
            /\ UNCHANGED <<calls, inflight, trace>>
    /\ UNCHANGED <<options, attempt, lastError, result, waited>>
    /\ UNCHANGED <<orchVars, listVars, errVars, sftpVars, notifyVars>>

\* retry.ts:26: fn() resolved, `return await fn()`
RetryFnResolve ==
    /\ rpc = "pending"
    /\ rpc' = "resolved"
    /\ inflight' = inflight - 1
    /\ result' = <<"value", calls>>
    /\ trace' = Append(trace, <<"ok", calls>>)
    /\ UNCHANGED <<options, attempt, lastError, calls, rejection, waited>>
    /\ UNCHANGED <<orchVars, listVars, errVars, sftpVars, notifyVars>>

\* the events the catch block appends after a failure that is retried
\* (retry.ts:70-76); the onRetry callback is taken to return normally
RetryEvents_zeroBased(err, att, delay) ==
    (IF options.onRetry THEN << <<"onRetry", err, att>> >> ELSE <<>>)
        \o << <<"sleep", delay>> >>

RetryEvents(err, att, delay) ==
    (IF options.onRetry THEN << <<"onRetry", err, att + 1>> >> ELSE <<>>)
        \o << <<"sleep", delay>> >>

\* retry.ts:27-76: fn() rejected with a thrown value; the catch block
RetryFnReject_noSleep(kind) ==
    /\ rpc = "pending"
    /\ LET error == Thrown(kind, calls)
           err   == AsError(error)
       IN /\ lastError' = err
          /\ IF IsNonRetryable(error) \/ Exhausted(attempt, options.maxRetries)
             THEN /\ rpc' = "rejected"
                  /\ rejection' = err
                  /\ inflight' = inflight - 1
                  /\ trace' = Append(trace, <<"fail", calls, error>>)
                  /\ UNCHANGED <<attempt, calls>>
             ELSE /\ rpc' = "pending"
                  /\ attempt' = attempt + 1
                  /\ calls' = calls + 1
                  /\ inflight' = inflight
                  /\ trace' = trace \o << <<"fail", calls, error>>, <<"invoke", calls + 1>> >>
                  /\ UNCHANGED rejection
    /\ UNCHANGED <<options, result, waited>>
    /\ UNCHANGED <<orchVars, listVars, errVars, sftpVars, notifyVars>>

RetryFnReject(kind) ==
    /\ rpc = "pending"
    /\ LET error == Thrown(kind, calls)
           err   == AsError(error)
           delay == Delay(options.delayMs, ExponentialBackoff(options), attempt)
       IN /\ lastError' = err
          /\ inflight' = inflight - 1
          /\ IF IsNonRetryable(error)
             THEN \* retry.ts:31-41
                  /\ rpc' = "rejected"
                  /\ rejection' = err
                  /\ trace' = Append(trace, <<"fail", calls, error>>)
             ELSE IF Exhausted(attempt, options.maxRetries)
             THEN \* retry.ts:44-54
                  /\ rpc' = "rejected"
                  /\ rejection' = err
                  /\ trace' = Append(trace, <<"fail", calls, error>>)
             ELSE \* retry.ts:57-76: onRetry, then sleep(delay) starts
                  /\ rpc' = "sleeping"
                  /\ trace' = (Append(trace, <<"fail", calls, error>>)
                                  \o RetryEvents(err, attempt, delay))
                  /\ UNCHANGED rejection
    /\ UNCHANGED <<options, attempt, calls, result, waited>>
    /\ UNCHANGED <<orchVars, listVars, errVars, sftpVars, notifyVars>>

\* retry.ts:76,24-26: the sleep elapsed; attempt++ and the next invocation,
\* or the fall-through of retry.ts:80-85 when the loop condition fails
RetrySleepDone ==
    /\ rpc = "sleeping"
    /\ LET ms == trace[Len(trace)][2]
       IN /\ waited' = waited + ms
          /\ attempt' = attempt + 1
          /\ IF LoopCond(attempt + 1, options.maxRetries)
             THEN /\ rpc' = "pending"
                  /\ calls' = calls + 1
                  /\ inflight' = inflight + 1
                  /\ trace' = trace \o << <<"wake", ms>>, <<"invoke", calls + 1>> >>
                  /\ UNCHANGED rejection
             ELSE /\ rpc' = "rejected"
                  /\ rejection' = lastError
                  /\ trace' = Append(trace, <<"wake", ms>>)
                  /\ UNCHANGED <<calls, inflight>>
    /\ UNCHANGED <<options, lastError, result>>
    /\ UNCHANGED <<orchVars, listVars, errVars, sftpVars, notifyVars>>

RetryNext ==
    \/ RetryEnter
    \/ RetryFnResolve
    \/ \E kind \in ThrownKinds : RetryFnReject(kind)
    \/ RetrySleepDone

SpecRetry == RetryInit /\ [][RetryNext]_vars

\* ------------------------------------------------------------ SFTP errors
\* errors.ts:34-37: every SftpError is constructed with isRetryable = true
SftpError(code, n) ==
    [cls |-> "BaseError", code |-> code, message |-> <<code>>,
     context |-> "ctx", isRetryable |-> TRUE, obj |-> n]

\* errors.ts:65-75
FileSystemError(code, n) ==
    [cls |-> "BaseError", code |-> code, message |-> <<code>>,
     context |-> "ctx", isRetryable |-> TRUE, obj |-> n]

\* sftp.service.ts:63-72: the error connect()'s operation throws
ConnectError(kind, n) ==
    IF kind = "auth" THEN SftpError("SFTP_AUTH_FAILED", n)
    ELSE SftpError("SFTP_CONNECTION_FAILED", n)

\* retry.ts:31-54: whether the catch block rethrows instead of retrying
RetryGivesUp(error, att, maxRetries) ==
    IF IsNonRetryable(error) THEN TRUE ELSE Exhausted(att, maxRetries)

\* ------------------------------------------------- PipelineOrchestrator
Settled(r) == run[r].pc \in {"resolved", "rejected"}

Active(r) == run[r].pc \notin {"idle", "resolved", "rejected"}

OrchInit ==
    /\ state = InitialState
    /\ isConnected = FALSE
    /\ sftpRetry \in [maxRetries : 0..MaxSftpRetries]
    /\ spaces \in BOOLEAN
    /\ run = [r \in Runs |-> IdleRun]
    /\ stopPc = "idle"
    /\ metrics = NoMetrics
    /\ scratch = {}
    /\ snapshot = <<>>
    /\ RetryQuiet
    /\ ListQuiet
    /\ ErrQuiet
    /\ SftpQuiet
    /\ NotifyQuiet

\* orchestrator.ts:46-48: the finally block, then start() settles
Finally_keepsRunning(r, outcome, error) ==
    /\ run' = [run EXCEPT ![r].pc = outcome, ![r].err = error]
    /\ state' = state

Finally(r, outcome, error) ==
    /\ run' = [run EXCEPT ![r].pc = outcome, ![r].err = error]
    /\ state' = [state EXCEPT !.isRunning = FALSE]

\* orchestrator.ts:31-36: start() is entered; runs of one instance do not
\* overlap and the history of earlier runs is dropped
Start_resetsCounters(r) ==
    /\ run[r].pc = "idle"
    /\ \A q \in Runs : q < r => Settled(q)
    /\ state' = [InitialState EXCEPT !.isRunning = TRUE]
    /\ run' = [q \in Runs |->
                 IF q = r
                 THEN [IdleRun EXCEPT !.pc = "ensureDirs",
                                      !.base = [processedCount |-> state.processedCount,
                                                failedCount |-> state.failedCount]]
                 ELSE IF q < r THEN [IdleRun EXCEPT !.pc = run[q].pc]
                 ELSE run[q]]
    /\ UNCHANGED <<isConnected, sftpRetry, spaces, stopPc, metrics, scratch, snapshot>>
    /\ UNCHANGED <<retryVars, listVars, errVars, sftpVars, notifyVars>>

Start(r) ==
    /\ run[r].pc = "idle"
    /\ \A q \in Runs : q < r => Settled(q)
    /\ state' = [state EXCEPT !.isRunning = TRUE, !.shouldStop = FALSE]
    /\ run' = [q \in Runs |->
                 IF q = r
                 THEN [IdleRun EXCEPT !.pc = "ensureDirs",
                                      !.base = [processedCount |-> state.processedCount,
                                                failedCount |-> state.failedCount]]
                 ELSE IF q < r THEN [IdleRun EXCEPT !.pc = run[q].pc]
                 ELSE run[q]]
    /\ UNCHANGED <<isConnected, sftpRetry, spaces, stopPc, metrics, scratch, snapshot>>
    /\ UNCHANGED <<retryVars, listVars, errVars, sftpVars, notifyVars>>

\* orchestrator.ts:36-37, sftp.service.ts:38-59: ensureDirectories settled;
\* on success connect() is called
EnsureDirsSettles(r, ok) ==
    /\ run[r].pc = "ensureDirs"
    /\ IF ~ok
       THEN Finally(r, "rejected", FileSystemError("DIR_CREATE_FAILED", 1))
       ELSE /\ IF isConnected
               THEN \* sftp.service.ts:39-42, then listFiles is called
                    run' = [run EXCEPT ![r].pc = "listing", ![r].att = 0,
                                       ![r].log = @ \o << <<"call", "list", 1>> >>]
               ELSE run' = [run EXCEPT ![r].pc = "connecting", ![r].att = 0,
                                       ![r].log = @ \o << <<"call", "connect", 1>> >>]
            /\ UNCHANGED state
    /\ UNCHANGED <<isConnected, sftpRetry, spaces, stopPc, metrics, scratch, snapshot>>
    /\ UNCHANGED <<retryVars, listVars, errVars, sftpVars, notifyVars>>

\* sftp.service.ts:52-73 under retry.ts:26-76: client.connect settled
ConnectSettles(r, outcome) ==
    /\ run[r].pc = "connecting"
    /\ IF outcome = "ok"
       THEN \* sftp.service.ts:61; connect() resolves and listFiles is called
            /\ isConnected' = TRUE
            /\ run' = [run EXCEPT ![r].pc = "listing", ![r].att = 0,
                                  ![r].log = @ \o << <<"call", "list", 1>> >>]
            /\ UNCHANGED state
       ELSE /\ isConnected' = FALSE
            /\ LET error == ConnectError(outcome, run[r].att + 1)
               IN IF RetryGivesUp(error, run[r].att, sftpRetry.maxRetries)
                  THEN Finally(r, "rejected", AsError(error))
                  ELSE /\ run' = [run EXCEPT ![r].pc = "connectSleep"]
                       /\ UNCHANGED state
    /\ UNCHANGED <<sftpRetry, spaces, stopPc, metrics, scratch, snapshot>>
    /\ UNCHANGED <<retryVars, listVars, errVars, sftpVars, notifyVars>>

\* retry.ts:76,24-26: the back-off elapsed, the next client.connect starts
ConnectSleepDone(r) ==
    /\ run[r].pc = "connectSleep"
    /\ LoopCond(run[r].att + 1, sftpRetry.maxRetries)
    /\ run' = [run EXCEPT ![r].pc = "connecting", ![r].att = @ + 1,
                          ![r].log = @ \o << <<"call", "connect", run[r].att + 2>> >>]
    /\ UNCHANGED <<state, isConnected, sftpRetry, spaces, stopPc, metrics, scratch, snapshot>>
    /\ UNCHANGED <<retryVars, listVars, errVars, sftpVars, notifyVars>>

\* sftp.service.ts:109-128 under retry.ts:26-76: one listRecentFiles attempt
\* settled, with a catalog or with an error wrapped as SFTP_LIST_FAILED
ListSettles(r, ok, catalog) ==
    /\ run[r].pc = "listing"
    /\ IF ok
       THEN /\ run' = [run EXCEPT ![r].pc = "loop", ![r].files = catalog,
                                  ![r].idx = 0, ![r].att = 0]
            /\ UNCHANGED state
       ELSE LET error == SftpError("SFTP_LIST_FAILED", run[r].att + 1)
            IN IF RetryGivesUp(error, run[r].att, sftpRetry.maxRetries)
               THEN Finally(r, "rejected", AsError(error))
               ELSE /\ run' = [run EXCEPT ![r].pc = "listSleep"]
                    /\ UNCHANGED state
    /\ UNCHANGED <<isConnected, sftpRetry, spaces, stopPc, metrics, scratch, snapshot>>
    /\ UNCHANGED <<retryVars, listVars, errVars, sftpVars, notifyVars>>

ListSleepDone(r) ==
    /\ run[r].pc = "listSleep"
    /\ LoopCond(run[r].att + 1, sftpRetry.maxRetries)
    /\ run' = [run EXCEPT ![r].pc = "listing", ![r].att = @ + 1,
                          ![r].log = @ \o << <<"call", "list", run[r].att + 2>> >>]
    /\ UNCHANGED <<state, isConnected, sftpRetry, spaces, stopPc, metrics, scratch, snapshot>>
    /\ UNCHANGED <<retryVars, listVars, errVars, sftpVars, notifyVars>>

\* orchestrator.ts:43  the stop check at the item boundary
StopRequested_ignored(st) == FALSE

StopRequested(st) == st.shouldStop

\* orchestrator.ts:42-45, 57-70: the loop takes the next item, or ends
LoopNext(r) ==
    /\ run[r].pc = "loop"
    /\ IF run[r].idx >= Len(run[r].files) \/ StopRequested(state)
       THEN Finally(r, "resolved", None)
       ELSE LET i == run[r].idx + 1
            IN /\ IF ShouldSkip(run[r].files[i])
                  THEN \* orchestrator.ts:59-61
                       run' = [run EXCEPT ![r].idx = i,
                                 ![r].log = @ \o << <<"item", i>>, <<"outcome", i, "skipped">> >>]
                  ELSE \* orchestrator.ts:70 downloadFile starts
                       run' = [run EXCEPT ![r].idx = i, ![r].pc = "download", ![r].att = 0,
                                 ![r].log = @ \o << <<"item", i>>, <<"stage", i, "download">>,
                                                    <<"call", "fastGet", 1>> >>]
               /\ UNCHANGED state
    /\ UNCHANGED <<isConnected, sftpRetry, spaces, stopPc, metrics, scratch, snapshot>>
    /\ UNCHANGED <<retryVars, listVars, errVars, sftpVars, notifyVars>>

\* the history keeps the stage events of the item in flight only: once the
\* item's outcome is recorded they are summarised by that outcome
Recorded(r, outcome) ==
    SelectSeq(run[r].log,
              LAMBDA e : e[1] # "stage" /\ ~(e[1] = "call" /\ e[2] = "fastGet"))
        \o << <<"outcome", run[r].idx, outcome>> >>

\* orchestrator.ts:101-104: the item-level catch
ItemFailed_rethrows(r) ==
    /\ state' = [state EXCEPT !.failedCount = @ + 1, !.isRunning = FALSE]
    /\ run' = [run EXCEPT ![r].pc = "rejected",
                 ![r].log = Recorded(r, "failed")]

ItemFailed(r) ==
    /\ state' = [state EXCEPT !.failedCount = @ + 1]
    /\ run' = [run EXCEPT ![r].pc = "loop",
                 ![r].log = Recorded(r, "failed")]

\* orchestrator.ts:98-99
ItemProcessed(r) ==
    /\ state' = [state EXCEPT !.processedCount = @ + 1]
    /\ run' = [run EXCEPT ![r].pc = "loop",
                 ![r].log = Recorded(r, "ok")]

\* the next stage of the item in flight starts
StageStarts(r, stage) ==
    /\ run' = [run EXCEPT ![r].pc = stage,
                 ![r].log = @ \o << <<"stage", run[r].idx, stage>> >>]
    /\ UNCHANGED state

\* sftp.service.ts:256-278 under retry.ts:26-76: client.fastGet settled
DownloadSettles(r, ok) ==
    /\ run[r].pc = "download"
    /\ IF ok
       THEN StageStarts(r, "transcode")
       ELSE LET error == SftpError("SFTP_DOWNLOAD_FAILED", run[r].att + 1)
            IN IF RetryGivesUp(error, run[r].att, sftpRetry.maxRetries)
               THEN ItemFailed(r)
               ELSE /\ run' = [run EXCEPT ![r].pc = "downloadSleep"]
                    /\ UNCHANGED state
    /\ scratch' = IF ok THEN scratch \cup {LocalPath} ELSE scratch
    /\ UNCHANGED <<isConnected, sftpRetry, spaces, stopPc, metrics, snapshot>>
    /\ UNCHANGED <<retryVars, listVars, errVars, sftpVars, notifyVars>>

DownloadSleepDone_sameAttempt(r) ==
    /\ run[r].pc = "downloadSleep"
    /\ LoopCond(run[r].att + 1, sftpRetry.maxRetries)
    /\ run' = [run EXCEPT ![r].pc = "download"]
    /\ UNCHANGED <<state, isConnected, sftpRetry, spaces, stopPc, metrics, scratch, snapshot>>
    /\ UNCHANGED <<retryVars, listVars, errVars, sftpVars, notifyVars>>

DownloadSleepDone(r) ==
    /\ run[r].pc = "downloadSleep"
    /\ LoopCond(run[r].att + 1, sftpRetry.maxRetries)
    /\ run' = [run EXCEPT ![r].pc = "download", ![r].att = @ + 1,
                          ![r].log = @ \o << <<"call", "fastGet", run[r].att + 2>> >>]
    /\ UNCHANGED <<state, isConnected, sftpRetry, spaces, stopPc, metrics, scratch, snapshot>>
    /\ UNCHANGED <<retryVars, listVars, errVars, sftpVars, notifyVars>>

\* orchestrator.ts:73: ffmpegService.transcode settled
TranscodeSettles_skipsTranscribe(r, ok) ==
    /\ run[r].pc = "transcode"
    /\ IF ok THEN StageStarts(r, "record") ELSE ItemFailed(r)
    /\ scratch' = IF ok THEN scratch \cup {PlayablePath} ELSE scratch
    /\ UNCHANGED <<isConnected, sftpRetry, spaces, stopPc, metrics, snapshot>>
    /\ UNCHANGED <<retryVars, listVars, errVars, sftpVars, notifyVars>>

TranscodeSettles(r, ok) ==
    /\ run[r].pc = "transcode"
    /\ IF ok THEN StageStarts(r, "transcribe") ELSE ItemFailed(r)
    /\ scratch' = IF ok THEN scratch \cup {PlayablePath} ELSE scratch
    /\ UNCHANGED <<isConnected, sftpRetry, spaces, stopPc, metrics, snapshot>>
    /\ UNCHANGED <<retryVars, listVars, errVars, sftpVars, notifyVars>>

\* orchestrator.ts:76-92, transcription.service.ts:46-47: transcribe settled,
\* leaving its transcript next to the playable file; with object storage
\* configured the transcript is written (which may throw) and the upload
\* starts, otherwise the record-keeping call starts
TranscribeSettles(r, ok, wrote) ==
    /\ run[r].pc = "transcribe"
    /\ IF ~ok THEN ItemFailed(r)
       ELSE IF spaces
            THEN (IF wrote THEN StageStarts(r, "upload") ELSE ItemFailed(r))
            ELSE StageStarts(r, "record")
    /\ scratch' = IF ~ok THEN scratch
                   ELSE IF spaces /\ wrote
                   THEN scratch \cup {PlayableTranscript, TranscriptPath}
                   ELSE scratch \cup {PlayableTranscript}
    /\ UNCHANGED <<isConnected, sftpRetry, spaces, stopPc, metrics, snapshot>>
    /\ UNCHANGED <<retryVars, listVars, errVars, sftpVars, notifyVars>>

\* orchestrator.ts:84-92: uploadCallFiles settled; the local files are
\* unlinked in order (an unlink may throw, leaving the files after it) and
\* the record-keeping call starts
UploadSettles(r, ok, cleaned) ==
    /\ run[r].pc = "upload"
    /\ IF ok /\ cleaned THEN StageStarts(r, "record") ELSE ItemFailed(r)
    /\ \E n \in (IF ~ok THEN {0} ELSE IF cleaned THEN {3} ELSE 0..2) :
           scratch' = scratch \ Unlinked(n)
    /\ UNCHANGED <<isConnected, sftpRetry, spaces, stopPc, metrics, snapshot>>
    /\ UNCHANGED <<retryVars, listVars, errVars, sftpVars, notifyVars>>

\* orchestrator.ts:92-104: notionService.addRecording settled
RecordSettles(r, ok) ==
    /\ run[r].pc = "record"
    /\ IF ok THEN ItemProcessed(r) ELSE ItemFailed(r)
    /\ UNCHANGED <<isConnected, sftpRetry, spaces, stopPc, metrics, scratch, snapshot>>
    /\ UNCHANGED <<retryVars, listVars, errVars, sftpVars, notifyVars>>

\* orchestrator.ts:51-54, sftp.service.ts:83-91: stop() is called; it sets
\* the flag and, when the session is marked connected, awaits client.end()
StopCall_clearsRunning ==
    /\ stopPc = "idle"
    /\ state' = [state EXCEPT !.shouldStop = TRUE, !.isRunning = FALSE]
    /\ run' = [r \in Runs |->
                 IF Active(r) /\ ~run[r].stopSeen
                 THEN [run[r] EXCEPT !.stopSeen = TRUE, !.log = @ \o << <<"stop">> >>]
                 ELSE run[r]]
    /\ stopPc' = IF isConnected THEN "ending" ELSE "idle"
    /\ UNCHANGED <<isConnected, sftpRetry, spaces, metrics, scratch, snapshot>>
    /\ UNCHANGED <<retryVars, listVars, errVars, sftpVars, notifyVars>>

StopCall ==
    /\ stopPc = "idle"
    /\ state' = [state EXCEPT !.shouldStop = TRUE]
    /\ run' = [r \in Runs |->
                 IF Active(r) /\ ~run[r].stopSeen
                 THEN [run[r] EXCEPT !.stopSeen = TRUE, !.log = @ \o << <<"stop">> >>]
                 ELSE run[r]]
    /\ stopPc' = IF isConnected THEN "ending" ELSE "idle"
    /\ UNCHANGED <<isConnected, sftpRetry, spaces, metrics, scratch, snapshot>>
    /\ UNCHANGED <<retryVars, listVars, errVars, sftpVars, notifyVars>>

\* sftp.service.ts:91-100: client.end() resolved or threw
StopEndSettles ==
    /\ stopPc = "ending"
    /\ isConnected' = FALSE
    /\ stopPc' = "idle"
    /\ UNCHANGED <<state, sftpRetry, spaces, run, metrics, scratch, snapshot>>
    /\ UNCHANGED <<retryVars, listVars, errVars, sftpVars, notifyVars>>

\* the steps of a start() call and of stop(), with catalogs drawn from a set
RunSteps(catalogs) ==
    \/ \E r \in Runs, ok \in BOOLEAN : EnsureDirsSettles(r, ok)
    \/ \E r \in Runs, outcome \in {"ok", "auth", "refused"} : ConnectSettles(r, outcome)
    \/ \E r \in Runs : ConnectSleepDone(r)
    \/ \E r \in Runs, ok \in BOOLEAN, catalog \in catalogs : ListSettles(r, ok, catalog)
    \/ \E r \in Runs : ListSleepDone(r)
    \/ \E r \in Runs : LoopNext(r)
    \/ \E r \in Runs, ok \in BOOLEAN : DownloadSettles(r, ok)
    \/ \E r \in Runs : DownloadSleepDone(r)
    \/ \E r \in Runs, ok \in BOOLEAN : TranscodeSettles(r, ok)
    \/ \E r \in Runs, ok \in BOOLEAN, wrote \in BOOLEAN : TranscribeSettles(r, ok, wrote)
    \/ \E r \in Runs, ok \in BOOLEAN, cleaned \in BOOLEAN : UploadSettles(r, ok, cleaned)
    \/ \E r \in Runs, ok \in BOOLEAN : RecordSettles(r, ok)
    \/ StopCall
    \/ StopEndSettles

\* one start() call on a fresh instance, stop() calls at any time
Next ==
    \/ Start(1)
    \/ RunSteps(Catalogs)

Spec == OrchInit /\ [][Next]_vars

\* catalogs of recordings that are processed (a.wav) or skipped (b.WAV)
LiveCatalogs == SeqsUpTo({WavName, UpperName}, MaxItems)

LiveNext ==
    \/ Start(1)
    \/ RunSteps(LiveCatalogs)

\* a collaborator call or a back-off delay of a run or of stop() returns
Advance == RunSteps(LiveCatalogs) /\ ~StopCall

\* one start() call, stop() calls at any time; every collaborator call and
\* every back-off delay eventually returns or fails
SpecLive == OrchInit /\ [][LiveNext]_vars /\ WF_vars(Advance)

\* catalogs of at most one recording
ShortCatalogs == {c \in Catalogs : Len(c) <= 1}

\* two start() calls in turn on one instance, stop() calls at any time
ReuseNext ==
    \/ Start(1)
    \/ Start(2)
    \/ RunSteps(ShortCatalogs)

SpecReuse == OrchInit /\ [][ReuseNext]_vars

\* orchestrator.ts:31-36: start() is entered while an earlier call of
\* start() on the instance is still in progress; nothing in start() looks
\* at isRunning, so the new call proceeds beside the earlier one
StartOverlapping(r) ==
    /\ run[r].pc = "idle"
    /\ \E q \in Runs : q < r /\ Active(q)
    /\ state' = [state EXCEPT !.isRunning = TRUE, !.shouldStop = FALSE]
    /\ run' = [run EXCEPT ![r] =
                 [IdleRun EXCEPT !.pc = "ensureDirs",
                                 !.base = [processedCount |-> state.processedCount,
                                           failedCount |-> state.failedCount]]]
    /\ UNCHANGED <<isConnected, sftpRetry, spaces, stopPc, metrics, scratch, snapshot>>
    /\ UNCHANGED <<retryVars, listVars, errVars, sftpVars, notifyVars>>

\* the catalog of one recording that every listing of an overlapped run returns
OverlapCatalogs == {<<WavName>>}

\* the steps of the runs in progress when two calls of start() may overlap:
\* the remote-store calls (connect, list, download) succeed or fail, the
\* local stages succeed
OverlapSteps ==
    \/ \E r \in Runs : EnsureDirsSettles(r, TRUE)
    \/ \E r \in Runs, outcome \in {"ok", "refused"} : ConnectSettles(r, outcome)
    \/ \E r \in Runs : ConnectSleepDone(r)
    \/ \E r \in Runs, ok \in BOOLEAN, catalog \in OverlapCatalogs : ListSettles(r, ok, catalog)
    \/ \E r \in Runs : ListSleepDone(r)
    \/ \E r \in Runs : LoopNext(r)
    \/ \E r \in Runs, ok \in BOOLEAN : DownloadSettles(r, ok)
    \/ \E r \in Runs : DownloadSleepDone(r)
    \/ \E r \in Runs : TranscodeSettles(r, TRUE)
    \/ \E r \in Runs : TranscribeSettles(r, TRUE, TRUE)
    \/ \E r \in Runs : UploadSettles(r, TRUE, TRUE)
    \/ \E r \in Runs : RecordSettles(r, TRUE)
    \/ StopCall
    \/ StopEndSettles

\* start() and stop() called in any interleaving on one instance, with a
\* second start() issued while the first is in progress (SpecReuse has the
\* second start() issued after the first has settled)
OverlapNext ==
    \/ Start(1)
    \/ StartOverlapping(2)
    \/ OverlapSteps

SpecOverlap == OrchInit /\ [][OverlapNext]_vars

\* ------------------------------------------------------------- getState()
\* a value returned by getState(): the object it refers to (a fresh copy or
\* the orchestrator's own state object), the fields of a fresh copy, the
\* state at the call, and whether the caller has modified it since
Snapshot(ref) == [ref |-> ref, fields |-> state, at |-> state, touched |-> FALSE]

\* the fields read through a returned value
Deref(s) == IF s.ref = "state" THEN state ELSE s.fields

\* orchestrator.ts:107-109
GetState_alias ==
    /\ snapshot' = <<Snapshot("state")>>
    /\ UNCHANGED <<state, isConnected, sftpRetry, spaces, run, stopPc, metrics, scratch>>
    /\ UNCHANGED <<retryVars, listVars, errVars, sftpVars, notifyVars>>

GetState ==
    /\ snapshot' = <<Snapshot("copy")>>
    /\ UNCHANGED <<state, isConnected, sftpRetry, spaces, run, stopPc, metrics, scratch>>
    /\ UNCHANGED <<retryVars, listVars, errVars, sftpVars, notifyVars>>

\* the assignments a caller makes to a field of the returned value
Modifications == {<<"processedCount", 7>>, <<"shouldStop", TRUE>>}

\* orchestrator.ts:107-109: the caller assigns to a field of the value
\* getState() returned (its type is `any`, nothing freezes it)
ModifySnapshot(field, value) ==
    /\ snapshot # <<>>
    /\ ~snapshot[1].touched
    /\ IF snapshot[1].ref = "state"
       THEN /\ state' = [state EXCEPT ![field] = value]
            /\ snapshot' = <<[snapshot[1] EXCEPT !.touched = TRUE]>>
       ELSE /\ snapshot' = <<[snapshot[1] EXCEPT !.fields[field] = value,
                                                !.touched = TRUE]>>
            /\ state' = state
    /\ UNCHANGED <<isConnected, sftpRetry, spaces, run, stopPc, metrics, scratch>>
    /\ UNCHANGED <<retryVars, listVars, errVars, sftpVars, notifyVars>>

\* one start() call, stop() and getState() calls at any time, and a caller
\* that modifies what getState() returned
SnapshotNext ==
    \/ Start(1)
    \/ RunSteps(ShortCatalogs)
    \/ GetState
    \/ \E m \in Modifications : ModifySnapshot(m[1], m[2])

SpecSnapshot == OrchInit /\ [][SnapshotNext]_vars

\* ----------------------------------------------------- SftpService methods
\* sftp.service.test.ts:13-19: the configuration of the service
SftpConfig == [host |-> "test.sftp.com", username |-> "testuser", remotePath |-> "/test"]

\* the phrase connect() looks for in the message of a client error
AuthPhrase == <<"All configured authentication methods failed">>

\* messages of the errors the client rejects with, as sequences of phrases
ClientMessages ==
    {<<"Connection failed">>, AuthPhrase, <<"connect: ">> \o AuthPhrase \o <<" (password)">>}

\* the values the client rejects with: Error objects, or bare strings
ClientFailures == [isError : BOOLEAN, message : ClientMessages]

\* sftp.service.ts:64  error instanceof Error ? error : new Error(String(error))
ToError(raw) == [isError |-> TRUE, message |-> raw.message]

\* errors.ts:34-37: every SftpError is constructed with isRetryable = true
NewSftpError(message, code, context) ==
    [cls |-> "BaseError", name |-> "SftpError", message |-> message, code |-> code,
     context |-> context, isRetryable |-> TRUE]

\* errors.ts:39-44
ConnectionFailed(host, error) ==
    NewSftpError("SFTP connection failed", "SFTP_CONNECTION_FAILED",
                 [host |-> host, originalError |-> error.message])

\* errors.ts:46-51
DownloadFailed_noContext(remotePath, error) ==
    NewSftpError("Failed to download file from SFTP", "SFTP_DOWNLOAD_FAILED",
                 [originalError |-> error.message])

DownloadFailed(remotePath, error) ==
    NewSftpError("Failed to download file from SFTP", "SFTP_DOWNLOAD_FAILED",
                 [remotePath |-> remotePath, originalError |-> error.message])

\* errors.ts:53-58
ListFailed(remotePath, error) ==
    NewSftpError("Failed to list files on SFTP", "SFTP_LIST_FAILED",
                 [remotePath |-> remotePath, originalError |-> error.message])

\* errors.ts:67-71
AuthenticationFailed(username) ==
    NewSftpError("SFTP authentication failed", "SFTP_AUTH_FAILED",
                 [username |-> username])

\* sftp.service.ts:62-72, 118-123, 268-273: the SftpError the operation of
\* a method throws for a value the client rejected with
Wrapped(op, target, raw) ==
    LET err == ToError(raw)
    IN CASE op = "connect" ->
              IF Includes(err.message, AuthPhrase)
              THEN AuthenticationFailed(SftpConfig.username)
              ELSE ConnectionFailed(SftpConfig.host, err)
         [] op = "listFiles" -> ListFailed(target, err)
         [] op = "downloadFile" -> DownloadFailed(target, err)

\* sftp.service.ts:307-309
IsClientConnected == isConnected

\* a method can be called once the call before it has settled
CallSettled == sess.pc \in {"idle", "resolved", "rejected"}

\* sftp.service.ts:38-59: connect() is called
SessConnect ==
    /\ CallSettled
    /\ IF isConnected
       THEN /\ sess' = [NoCall EXCEPT !.op = "connect", !.pc = "resolved"]
            /\ clientCalls' = <<>>
       ELSE /\ sess' = [NoCall EXCEPT !.op = "connect", !.pc = "calling"]
            /\ clientCalls' = <<"connect">>
    /\ UNCHANGED <<orchVars, retryVars, listVars, errVars, notifyVars>>

\* sftp.service.ts:83-91: disconnect() is called
SessDisconnect ==
    /\ CallSettled
    /\ IF ~isConnected
       THEN /\ sess' = [NoCall EXCEPT !.op = "disconnect", !.pc = "resolved"]
            /\ clientCalls' = <<>>
       ELSE /\ sess' = [NoCall EXCEPT !.op = "disconnect", !.pc = "calling"]
            /\ clientCalls' = <<"end">>
    /\ UNCHANGED <<orchVars, retryVars, listVars, errVars, notifyVars>>

\* the remotePath arguments of listFiles: omitted, empty, or a path
ListArguments == {<<>>, <<"">>, <<"/other">>}

\* sftp.service.ts:107  remotePath || this.config.remotePath
TargetPath(remotePath) ==
    IF remotePath = <<>> \/ remotePath = <<"">> THEN SftpConfig.remotePath
    ELSE remotePath[1]

\* sftp.service.ts:106-116: listFiles() is called; the first client.list of
\* the walk is issued
SessListFiles(remotePath) ==
    /\ CallSettled
    /\ sess' = [NoCall EXCEPT !.op = "listFiles", !.pc = "calling",
                              !.target = TargetPath(remotePath)]
    /\ clientCalls' = <<"list">>
    /\ UNCHANGED <<orchVars, retryVars, listVars, errVars, notifyVars>>

\* sftp.service.ts:256-266: downloadFile() is called
SessDownloadFile(remotePath) ==
    /\ CallSettled
    /\ sess' = [NoCall EXCEPT !.op = "downloadFile", !.pc = "calling",
                              !.target = remotePath]
    /\ clientCalls' = <<"fastGet">>
    /\ UNCHANGED <<orchVars, retryVars, listVars, errVars, notifyVars>>

\* retry.ts:26-76: an attempt of the method's operation threw `error`
AttemptFailed(raw, error) ==
    sess' = [sess EXCEPT !.fails = @ + 1, !.raw = <<raw>>,
               !.pc = IF RetryGivesUp(error, sess.att, sftpRetry.maxRetries)
                      THEN "rejected" ELSE "sleeping",
               !.error = IF RetryGivesUp(error, sess.att, sftpRetry.maxRetries)
                         THEN <<error>> ELSE <<>>]

\* sftp.service.ts:52-73: client.connect resolved
SessConnectResolves ==
    /\ sess.op = "connect" /\ sess.pc = "calling"
    /\ isConnected' = TRUE
    /\ sess' = [sess EXCEPT !.pc = "resolved"]
    /\ UNCHANGED <<state, sftpRetry, spaces, run, stopPc, metrics, scratch, snapshot>>
    /\ UNCHANGED <<clientCalls, retryVars, listVars, errVars, notifyVars>>

\* sftp.service.ts:62-72: client.connect rejected
SessConnectRejects(raw) ==
    /\ sess.op = "connect" /\ sess.pc = "calling"
    /\ isConnected' = FALSE
    /\ AttemptFailed(raw, Wrapped("connect", sess.target, raw))
    /\ UNCHANGED <<state, sftpRetry, spaces, run, stopPc, metrics, scratch, snapshot>>
    /\ UNCHANGED <<clientCalls, retryVars, listVars, errVars, notifyVars>>

\* sftp.service.ts:89-100: client.end() resolved or threw
SessEndSettles_keepsOnThrow(ok) ==
    /\ sess.op = "disconnect" /\ sess.pc = "calling"
    /\ isConnected' = ~ok
    /\ sess' = [sess EXCEPT !.pc = "resolved", !.endThrew = ~ok]
    /\ UNCHANGED <<state, sftpRetry, spaces, run, stopPc, metrics, scratch, snapshot>>
    /\ UNCHANGED <<clientCalls, retryVars, listVars, errVars, notifyVars>>

SessEndSettles(ok) ==
    /\ sess.op = "disconnect" /\ sess.pc = "calling"
    /\ isConnected' = FALSE
    /\ sess' = [sess EXCEPT !.pc = "resolved", !.endThrew = ~ok]
    /\ UNCHANGED <<state, sftpRetry, spaces, run, stopPc, metrics, scratch, snapshot>>
    /\ UNCHANGED <<clientCalls, retryVars, listVars, errVars, notifyVars>>

\* sftp.service.ts:109-116, 258-266: the walk of listFiles or the
\* client.fastGet of downloadFile succeeded
SessRemoteResolves ==
    /\ sess.op \in {"listFiles", "downloadFile"} /\ sess.pc = "calling"
    /\ sess' = [sess EXCEPT !.pc = "resolved"]
    /\ UNCHANGED <<orchVars, clientCalls, retryVars, listVars, errVars, notifyVars>>

\* sftp.service.ts:117-123, 267-273: a client.list of the walk, or the
\* client.fastGet, rejected
SessRemoteRejects(raw) ==
    /\ sess.op \in {"listFiles", "downloadFile"} /\ sess.pc = "calling"
    /\ AttemptFailed(raw, Wrapped(sess.op, sess.target, raw))
    /\ UNCHANGED <<orchVars, clientCalls, retryVars, listVars, errVars, notifyVars>>

\* retry.ts:76,24-26: the back-off elapsed and the operation runs again
SessBackoffDone ==
    /\ sess.pc = "sleeping"
    /\ LoopCond(sess.att + 1, sftpRetry.maxRetries)
    /\ sess' = [sess EXCEPT !.pc = "calling", !.att = @ + 1]
    /\ clientCalls' = Append(clientCalls,
                             CASE sess.op = "connect" -> "connect"
                               [] sess.op = "listFiles" -> "list"
                               [] sess.op = "downloadFile" -> "fastGet")
    /\ UNCHANGED <<orchVars, retryVars, listVars, errVars, notifyVars>>

\* sftp.service.test.ts:82, 94: the paths of recordings to download
DownloadPaths == {"/test/file1.wav", "/remote/file.wav"}

\* sftp.service.ts:28-33: a constructed service, not connected
SftpInit ==
    /\ state = InitialState
    /\ isConnected = FALSE
    /\ sftpRetry \in [maxRetries : 0..MaxSftpRetries]
    /\ spaces = FALSE
    /\ run = [r \in Runs |-> IdleRun]
    /\ stopPc = "idle"
    /\ metrics = NoMetrics
    /\ scratch = {}
    /\ snapshot = <<>>
    /\ SftpQuiet
    /\ NotifyQuiet
    /\ RetryQuiet
    /\ ListQuiet
    /\ ErrQuiet

SftpNext ==
    \/ SessConnect
    \/ SessConnectResolves
    \/ \E raw \in ClientFailures : SessConnectRejects(raw)
    \/ SessDisconnect
    \/ \E ok \in BOOLEAN : SessEndSettles(ok)
    \/ \E remotePath \in ListArguments : SessListFiles(remotePath)
    \/ \E remotePath \in DownloadPaths : SessDownloadFile(remotePath)
    \/ SessRemoteResolves
    \/ \E raw \in ClientFailures : SessRemoteRejects(raw)
    \/ SessBackoffDone

SpecSftp == SftpInit /\ [][SftpNext]_vars

\* ------------------------------------------------- NotificationService
\* notification.service.ts:208: the default of the `retries` parameter
DefaultRetries == 3

NotifyMethods == {"notifySuccess", "notifyFailure", "notifyDailySummary"}

\* what the POST of one attempt comes to: a response with ok, a response
\* without ok, or fetch (or JSON.stringify) throwing
FetchOutcomes == {"ok", "notOk", "threw"}

\* notification.service.ts:240,252: the delay slept after a failed attempt
SlackDelay(att) == 1000 * (2 ^ att)

\* notification.service.ts:208-215: entry of sendToSlack up to the first
\* fetch; without webhook it returns at once, with retries = 0 the loop body
\* never runs and the call falls through to the final logger.error
EnterSendToSlack(method, retries) ==
    LET call == [NoNotify EXCEPT !.webhook = slack.webhook,
                                 !.isEnabled = slack.isEnabled,
                                 !.method = method,
                                 !.retries = retries]
    IN  IF ~slack.webhook
        THEN [call EXCEPT !.pc = "returned", !.logged = "skipped"]
        ELSE IF 0 < retries
             THEN [call EXCEPT !.pc = "fetch", !.posts = 1]
             ELSE [call EXCEPT !.pc = "returned", !.logged = "gaveUp"]

\* notification.service.ts:43-44,100-101,146-147,202: notifySuccess,
\* notifyFailure and notifyDailySummary return at once when disabled and
\* otherwise build the message and await sendToSlack(message)
Notify(method) ==
    /\ slack.pc \in {"idle", "returned"}
    /\ slack' = IF ~slack.isEnabled
                THEN [NoNotify EXCEPT !.webhook = slack.webhook,
                                      !.isEnabled = slack.isEnabled,
                                      !.method = method,
                                      !.pc = "returned"]
                ELSE EnterSendToSlack(method, DefaultRetries)
    /\ UNCHANGED <<retryVars, orchVars, listVars, errVars, sftpVars>>

\* notification.service.ts:208: sendToSlack called with a `retries` argument
SendToSlack(retries) ==
    /\ slack.pc \in {"idle", "returned"}
    /\ slack' = EnterSendToSlack("sendToSlack", retries)
    /\ UNCHANGED <<retryVars, orchVars, listVars, errVars, sftpVars>>

\* a variant that lets the error of the last attempt escape the catch block
FetchSettles_rethrows(outcome) ==
    /\ slack.pc = "fetch"
    /\ slack' =
         LET seen == [slack EXCEPT !.outcomes = Append(@, outcome)]
         IN  IF outcome = "ok"
             THEN [seen EXCEPT !.pc = "returned", !.logged = "sent"]
             ELSE IF slack.attempt < slack.retries - 1
                  THEN [seen EXCEPT !.pc = "sleep",
                                    !.slept = Append(@, SlackDelay(slack.attempt))]
                  ELSE IF outcome = "threw"
                       THEN [seen EXCEPT !.pc = "rejected", !.attempt = @ + 1]
                       ELSE [seen EXCEPT !.pc = "returned", !.attempt = @ + 1,
                                         !.logged = "gaveUp"]
    /\ UNCHANGED <<retryVars, orchVars, listVars, errVars, sftpVars>>

\* notification.service.ts:216-258: the awaited fetch of one attempt
\* settles; a response with ok returns, any other response and any thrown
\* value is logged and followed by the back-off sleep unless the attempt was
\* the last, after which the loop ends, the failure is logged and the call
\* returns
FetchSettles(outcome) ==
    /\ slack.pc = "fetch"
    /\ slack' =
         LET seen == [slack EXCEPT !.outcomes = Append(@, outcome)]
         IN  IF outcome = "ok"
             THEN [seen EXCEPT !.pc = "returned", !.logged = "sent"]
             ELSE IF slack.attempt < slack.retries - 1
                  THEN [seen EXCEPT !.pc = "sleep",
                                    !.slept = Append(@, SlackDelay(slack.attempt))]
                  ELSE [seen EXCEPT !.pc = "returned", !.attempt = @ + 1,
                                    !.logged = "gaveUp"]
    /\ UNCHANGED <<retryVars, orchVars, listVars, errVars, sftpVars>>

\* notification.service.ts:240,252,215-217: the sleep ends, attempt++ and
\* the next iteration issues its fetch
SlackSleepDone ==
    /\ slack.pc = "sleep"
    /\ slack' = [slack EXCEPT !.pc = "fetch", !.attempt = @ + 1, !.posts = @ + 1]
    /\ UNCHANGED <<retryVars, orchVars, listVars, errVars, sftpVars>>

\* notification.service.ts:31-38: the constructor, with or without a
\* webhook URL in the configuration
NotifyInit ==
    /\ slack \in {[NoNotify EXCEPT !.webhook = w, !.isEnabled = w] : w \in BOOLEAN}
    /\ state = InitialState
    /\ isConnected = FALSE
    /\ sftpRetry = [maxRetries |-> 0]
    /\ spaces = FALSE
    /\ run = [r \in Runs |-> IdleRun]
    /\ stopPc = "idle"
    /\ metrics = NoMetrics
    /\ scratch = {}
    /\ snapshot = <<>>
    /\ RetryQuiet
    /\ ListQuiet
    /\ ErrQuiet
    /\ SftpQuiet

NotifyNext ==
    \/ \E method \in NotifyMethods : Notify(method)
    \/ \E retries \in 0..MaxSlackRetries : SendToSlack(retries)
    \/ \E outcome \in FetchOutcomes : FetchSettles(outcome)
    \/ SlackSleepDone

SpecNotify == NotifyInit /\ [][NotifyNext]_vars

\* ------------------------------------------------------- error taxonomy
\* largest number of error objects constructed in one behaviour
MaxErrors == 2

\* an optional statusCode argument: <<>> when absent, <<n>> when given
StatusCodes == {<<>>, <<0>>, <<200>>, <<400>>, <<404>>, <<428>>, <<429>>, <<430>>,
                <<499>>, <<500>>, <<503>>}

FileSizes == {0, 30}

Extensions == {".mp3", ".wav"}

\* errors.ts:4-14, 77-85, 138-145: the constructor; the fields are readonly
BaseError(name, message, code, context, isRetryable) ==
    [name |-> name, message |-> message, code |-> code, context |-> context,
     isRetryable |-> isRetryable]

\* errors.ts:87-93: the fourth constructor argument is omitted, so it is false
FileTooLarge(filePath, size, maxSize) ==
    BaseError("TranscriptionError", "File exceeds maximum size limit", "FILE_TOO_LARGE",
              [factory |-> "fileTooLarge", filePath |-> filePath, size |-> size,
               maxSize |-> maxSize],
              FALSE)

\* errors.ts:95-100
InvalidFormat(filePath, extension) ==
    BaseError("TranscriptionError", "Invalid file format", "INVALID_FORMAT",
              [factory |-> "invalidFormat", filePath |-> filePath, extension |-> extension],
              FALSE)

\* errors.ts:103, 148: !statusCode || statusCode >= 500 || statusCode === 429;
\* !statusCode holds for an absent status code and for 0
ApiIsRetryable_no429(statusCode) ==
    IF statusCode = <<>> THEN TRUE
    ELSE statusCode[1] = 0 \/ statusCode[1] >= 500

ApiIsRetryable(statusCode) ==
    IF statusCode = <<>> THEN TRUE
    ELSE statusCode[1] = 0 \/ statusCode[1] >= 500 \/ statusCode[1] = 429

\* errors.ts:102-114
TranscriptionApiError(filePath, statusCode) ==
    BaseError("TranscriptionError", "OpenAI API transcription failed",
              "TRANSCRIPTION_API_ERROR",
              [factory |-> "apiError", filePath |-> filePath, statusCode |-> statusCode],
              ApiIsRetryable(statusCode))

\* errors.ts:147-159
NotionApiError(operation, statusCode) ==
    BaseError("NotionError", "Notion API failed", "NOTION_API_ERROR",
              [factory |-> "apiError", operation |-> operation, statusCode |-> statusCode],
              ApiIsRetryable(statusCode))

ErrInit ==
    /\ errs = <<>>
    /\ json = <<>>
    /\ RetryQuiet
    /\ OrchQuiet
    /\ ListQuiet
    /\ SftpQuiet
    /\ NotifyQuiet

\* a factory returned a new error object
ErrCreate(e) ==
    /\ Len(errs) < MaxErrors
    /\ errs' = Append(errs, e)
    /\ UNCHANGED json
    /\ UNCHANGED <<retryVars, orchVars, listVars, sftpVars, notifyVars>>

\* errors.ts:19-28: toJSON() of an error object copies its fields
ErrToJSON(i) ==
    /\ i \in 1..Len(errs)
    /\ json' = [name |-> errs[i].name, message |-> errs[i].message, code |-> errs[i].code,
                context |-> errs[i].context, isRetryable |-> errs[i].isRetryable]
    /\ UNCHANGED errs
    /\ UNCHANGED <<retryVars, orchVars, listVars, sftpVars, notifyVars>>

ErrNext ==
    \/ \E size \in FileSizes : ErrCreate(FileTooLarge("a.wav", size, 25))
    \/ \E extension \in Extensions : ErrCreate(InvalidFormat("a.wav", extension))
    \/ \E statusCode \in StatusCodes : ErrCreate(TranscriptionApiError("a.wav", statusCode))
    \/ \E statusCode \in StatusCodes : ErrCreate(NotionApiError("create page", statusCode))
    \/ \E i \in 1..MaxErrors : ErrToJSON(i)

SpecErr == ErrInit /\ [][ErrNext]_vars

\* ------------------------------------------------------ remote file tree
\* most .wav files directly inside one second-level folder
MaxPerFolder == 2

\* largest maxFiles argument
MaxCap == 2

\* modifyTime values of the files inside the second-level folders
FileTimes == {1, 2}

DigitChars == <<"0", "1", "2", "3", "4", "5", "6", "7", "8", "9">>

Date_11_01_2024 == <<"1", "1", "_", "0", "1", "_", "2", "0", "2", "4">>

Date_11_02_2024 == <<"1", "1", "_", "0", "2", "_", "2", "0", "2", "4">>

Date_2024_11_03 == <<"2", "0", "2", "4", "-", "1", "1", "-", "0", "3">>

Garbage == <<"g", "a", "r", "b", "a", "g", "e">>

DateNames == {Date_11_01_2024, Date_11_02_2024, Date_2024_11_03}

Campaign1 == <<"c", "1">>

Campaign2 == <<"c", "2">>

SubName == <<"s", "u", "b">>

LinkName == <<"l", ".", "w", "a", "v">>

\* the i-th .wav file of a folder: f1.wav, f2.wav, ...
FileName(i) == <<"f", DigitChars[i + 1]>> \o DotWav

\* entries as client.list returns them (ssh2-sftp-client FileInfo)
Entry(name, type, modifyTime) ==
    [name |-> name, type |-> type, size |-> 10 + Len(name), modifyTime |-> modifyTime]

\* the second-level folders of the first category folder, in listing order,
\* and whether the tree also holds entries outside of them
Layouts ==
    {[names |-> <<>>, extras |-> FALSE],
     [names |-> <<Garbage>>, extras |-> TRUE],
     [names |-> <<Date_11_01_2024>>, extras |-> FALSE],
     [names |-> <<Date_11_01_2024, Date_2024_11_03>>, extras |-> TRUE],
     [names |-> <<Date_11_02_2024, Date_11_01_2024>>, extras |-> FALSE],
     [names |-> <<Garbage, Date_11_02_2024>>, extras |-> TRUE]}

TreeShapes ==
    UNION {{[folders |-> [i \in 1..Len(L.names) |->
                            [name |-> L.names[i], times |-> t[i]]],
             extras |-> L.extras] :
            t \in [1..Len(L.names) -> SeqsUpTo(FileTimes, MaxPerFolder)]} : L \in Layouts}

\* spec scenario: 11_01_2024 (2 files), 11_02_2024 (2 files), garbage (3 files)
ScenarioShape ==
    [folders |-> <<[name |-> Date_11_01_2024, times |-> <<1, 2>>],
                   [name |-> Date_11_02_2024, times |-> <<3, 4>>],
                   [name |-> Garbage, times |-> <<5, 6, 7>>]>>,
     extras |-> FALSE]

\* The remote store of a shape: directory path -> entries in listing order.
\* The first category folder holds the second-level folders with their .wav
\* files; with extras the base path also holds a regular .wav file, a
\* symbolic link, an .mp3 file and a second category folder (a .WAV file and
\* no subfolder), and the first second-level folder starts with a
\* subdirectory holding one newer .wav file.
RemoteTree(shape) ==
    LET n == Len(shape.folders)
        folderPath(i) == <<Campaign1, shape.folders[i].name>>
        folderEntries(i) ==
            (IF shape.extras /\ i = 1 THEN <<Entry(SubName, "d", 9)>> ELSE <<>>)
            \o [j \in 1..Len(shape.folders[i].times) |->
                  Entry(FileName(j), "-", shape.folders[i].times[j])]
        baseEntries ==
            IF shape.extras
            THEN <<Entry(WavName, "-", 0), Entry(Campaign1, "d", 9),
                   Entry(LinkName, "l", 9), Entry(Campaign2, "d", 9),
                   Entry(Mp3Name, "-", 9)>>
            ELSE <<Entry(Campaign1, "d", 9)>>
        top == (<<>> :> baseEntries)
               @@ (<<Campaign1>> :> [i \in 1..n |-> Entry(shape.folders[i].name, "d", 9)])
        folders == [p \in {folderPath(i) : i \in 1..n} |->
                      folderEntries(CHOOSE i \in 1..n : folderPath(i) = p)]
        extra == IF shape.extras
                 THEN (<<Campaign2>> :> <<Entry(UpperName, "-", 1)>>)
                      @@ (IF n > 0
                          THEN (Append(folderPath(1), SubName) :> <<Entry(WavName, "-", 3)>>)
                          ELSE <<>>)
                 ELSE <<>>
    IN top @@ folders @@ extra

\* the listing of the unit test: a .wav file, an .mp3 file and a directory
\* (empty here) at the base path
TestTree ==
    (<<>> :> <<[name |-> WavName, type |-> "-", size |-> 1000, modifyTime |-> 1234567890],
               [name |-> Mp3Name, type |-> "-", size |-> 2000, modifyTime |-> 1234567891],
               [name |-> SubName, type |-> "d", size |-> 0, modifyTime |-> 1234567892]>>)
    @@ (<<SubName>> :> <<>>)

RemoteTrees ==
    {RemoteTree(shape) : shape \in TreeShapes \cup {ScenarioShape}} \cup {TestTree}

\* --------------------------------------------------- SftpService.listFiles
\* Array.prototype.sort((a, b) => b.key - a.key) on <<key, item>> pairs: a
\* stable sort into descending key order
\* x goes behind the pairs of sorted whose key is not smaller than its own
InsertDesc_ascending(sorted, x) ==
    LET n == Cardinality({i \in 1..Len(sorted) : sorted[i][1] <= x[1]})
    IN SubSeq(sorted, 1, n) \o <<x>> \o SubSeq(sorted, n + 1, Len(sorted))

InsertDesc(sorted, x) ==
    LET n == Cardinality({i \in 1..Len(sorted) : sorted[i][1] >= x[1]})
    IN SubSeq(sorted, 1, n) \o <<x>> \o SubSeq(sorted, n + 1, Len(sorted))

\* the first n pairs, sorted
RECURSIVE SortPrefix(_, _)
SortPrefix(pairs, n) ==
    IF n = 0 THEN <<>>
    ELSE CHOOSE out \in {InsertDesc(sorted, pairs[n]) :
                           sorted \in {SortPrefix(pairs, n - 1)}} : TRUE

SortDesc_unsorted(pairs) == pairs

SortDesc(pairs) ==
    CHOOSE out \in {SortPrefix(given, Len(given)) : given \in {pairs}} : TRUE

\* files.sort((a, b) => b.modifyTime - a.modifyTime)
SortByModifyTime(files) ==
    CHOOSE out \in
      {[i \in 1..Len(sorted) |-> sorted[i][2]] :
         sorted \in {SortDesc([i \in 1..Len(files) |-> <<files[i].modifyTime, files[i]>>])}} :
      TRUE

\* Array.prototype.slice(0, maxFiles) for maxFiles >= 0
Slice_keepsAll(files, n) == files

Slice(files, n) == SubSeq(files, 1, IF n < Len(files) THEN n ELSE Len(files))

\* Number(digits)
RECURSIVE ToNumber(_)
ToNumber(digits) ==
    IF digits = <<>> THEN 0
    ELSE 10 * ToNumber(SubSeq(digits, 1, Len(digits) - 1))
         + (CHOOSE d \in 0..9 : DigitChars[d + 1] = digits[Len(digits)])

\* new Date(year, monthIndex, day, 0, 0, 0, 0).getTime(), counted in days
\* since 1970-01-01: a year of 0..99 means 1900 + year, and a month index or
\* a day outside its range carries over
GetTime(year, monthIndex, day) ==
    LET fullYear == IF year \in 0..99 THEN 1900 + year ELSE year
        y == fullYear + (monthIndex \div 12)
        m == monthIndex % 12
        leapsBefore(k) == ((k - 1) \div 4) - ((k - 1) \div 100) + ((k - 1) \div 400)
        isLeap == (y % 4 = 0 /\ y % 100 # 0) \/ y % 400 = 0
        daysBeforeMonth == <<0, 31, 59, 90, 120, 151, 181, 212, 243, 273, 304, 334>>
    IN 365 * (y - 1970) + leapsBefore(y) - leapsBefore(1970)
       + daysBeforeMonth[m + 1] + (IF isLeap /\ m >= 2 THEN 1 ELSE 0)
       + day - 1

\* the three groups of a name made of digits and exactly two separators
\* ('-' or '_'), <<>> when the name has another form
DateGroups(name) ==
    LET seps == {i \in 1..Len(name) : name[i] \in {"-", "_"}}
    IN IF Cardinality(seps) # 2 THEN <<>>
       ELSE LET i == CHOOSE a \in seps : \A b \in seps : a <= b
                j == CHOOSE a \in seps : \A b \in seps : a >= b
                groups == <<SubSeq(name, 1, i - 1), SubSeq(name, i + 1, j - 1),
                            SubSeq(name, j + 1, Len(name))>>
            IN IF \A g \in 1..3 : \A k \in 1..Len(groups[g]) :
                      \E d \in 1..10 : DigitChars[d] = groups[g][k]
               THEN groups ELSE <<>>

\* sftp.service.ts:185-215: <<>> for null, <<time>> for a parsed date
ParseDateFolderName(name) ==
    LET g == DateGroups(name)
    IN IF g = <<>> THEN <<>>
       ELSE IF Len(g[1]) = 4 /\ Len(g[2]) \in 1..2 /\ Len(g[3]) \in 1..2
            THEN <<GetTime(ToNumber(g[1]), ToNumber(g[2]) - 1, ToNumber(g[3]))>>
       ELSE IF Len(g[1]) \in 1..2 /\ Len(g[2]) \in 1..2 /\ Len(g[3]) = 4
            THEN <<GetTime(ToNumber(g[3]), ToNumber(g[1]) - 1, ToNumber(g[2]))>>
       ELSE <<>>

\* `if (!parsed) continue`: null and 0 are both skipped
IsDateFolder_any(subEntry) == subEntry.type = "d"

IsDateFolder(subEntry) ==
    /\ subEntry.type = "d"
    /\ ParseDateFolderName(subEntry.name) # <<>>
    /\ ParseDateFolderName(subEntry.name)[1] # 0

\* sftp.service.ts:171-180: the date folders of one category folder, each
\* with its parsed date
DateSubfolders(tree, campaignPath) ==
    LET dated == SelectSeq(tree[campaignPath], IsDateFolder)
    IN [k \in 1..Len(dated) |->
          [path |-> Append(campaignPath, dated[k].name),
           date |-> IF ParseDateFolderName(dated[k].name) = <<>> THEN 0
                    ELSE ParseDateFolderName(dated[k].name)[1]]]

RECURSIVE Flatten(_)
Flatten(seqs) ==
    IF seqs = <<>> THEN <<>> ELSE seqs[1] \o Flatten(SubSeq(seqs, 2, Len(seqs)))

\* sftp.service.ts:163-183: the base path and then every category folder is
\* listed; failAt > 0 makes the failAt-th client.list call of the attempt
\* reject
ListDateFolders(tree, remotePath, failAt) ==
    LET campaigns == SelectSeq(tree[remotePath], LAMBDA entry : entry.type = "d")
        paths == <<remotePath>>
                 \o [c \in 1..Len(campaigns) |-> Append(remotePath, campaigns[c].name)]
    IN IF failAt \in 1..Len(paths)
       THEN [folders |-> <<>>, calls |-> SubSeq(paths, 1, failAt), failed |-> TRUE]
       ELSE CHOOSE out \in
              {[folders |-> [k \in 1..Len(sorted) |-> sorted[k][2]],
                calls |-> paths, failed |-> FALSE] :
                 sorted \in {SortDesc([k \in 1..Len(found) |-> <<found[k].date, found[k]>>]) :
                               found \in {Flatten([c \in 1..Len(campaigns) |->
                                  DateSubfolders(tree, Append(remotePath, campaigns[c].name))])}}} :
              TRUE

\* `files.length >= maxFiles`; the default maxFiles (<<>>) is +Infinity
AtCap_oneMore(files, cap) == cap # <<>> /\ Len(files) > cap[1]

AtCap(files, cap) == cap # <<>> /\ Len(files) >= cap[1]

\* sftp.service.ts:217-251: acc holds the shared `files` array, the
\* client.list calls made so far in the attempt and the failure injected
RECURSIVE ListFilesRecursive(_, _, _, _), WalkEntries_flat(_, _, _, _, _),
          WalkEntries(_, _, _, _, _)

ListFilesRecursive(tree, remotePath, acc, cap) ==
    IF acc.failed THEN acc
    ELSE IF Len(acc.calls) + 1 = acc.failAt
    THEN [acc EXCEPT !.calls = Append(@, remotePath),
                     !.events = Append(@, <<"list", remotePath>>), !.failed = TRUE]
    ELSE WalkEntries(tree, remotePath, 1,
                     [acc EXCEPT !.calls = Append(@, remotePath),
                                 !.events = Append(@, <<"list", remotePath>>)], cap)

\* sftp.service.ts:225-248: the loop over the entries from the i-th on
WalkEntries_flat(tree, remotePath, i, acc, cap) ==
    IF acc.failed \/ i > Len(tree[remotePath]) \/ AtCap(acc.files, cap) THEN acc
    ELSE CHOOSE out \in
           {WalkEntries_flat(tree, remotePath, i + 1, next, cap) :
              next \in {LET entry == tree[remotePath][i]
                            entryPath == Append(remotePath, entry.name)
                            seen == [acc EXCEPT !.events = Append(@, <<"entry", entryPath>>)]
                        IN IF entry.type # "-" \/ ~CatalogAccepts(entry.name)
                           THEN seen
                           ELSE [seen EXCEPT
                                   !.events = Append(@, <<"push", entryPath>>),
                                   !.files = Append(@,
                                     [name |-> entry.name, size |-> entry.size,
                                      modifyTime |-> entry.modifyTime,
                                      remotePath |-> entryPath])]}} : TRUE

\* one entry is handled (a directory is walked, a regular .wav file is
\* pushed, anything else is passed over) and the loop goes on behind it
WalkEntries(tree, remotePath, i, acc, cap) ==
    IF acc.failed \/ i > Len(tree[remotePath]) \/ AtCap(acc.files, cap) THEN acc
    ELSE CHOOSE out \in
           {WalkEntries(tree, remotePath, i + 1, next, cap) :
              next \in {LET entry == tree[remotePath][i]
                            entryPath == Append(remotePath, entry.name)
                            seen == [acc EXCEPT !.events = Append(@, <<"entry", entryPath>>)]
                        IN IF entry.type = "d"
                           THEN ListFilesRecursive(tree, entryPath, seen, cap)
                           ELSE IF entry.type # "-" \/ ~CatalogAccepts(entry.name)
                           THEN seen
                           ELSE [seen EXCEPT
                                   !.events = Append(@, <<"push", entryPath>>),
                                   !.files = Append(@,
                                     [name |-> entry.name, size |-> entry.size,
                                      modifyTime |-> entry.modifyTime,
                                      remotePath |-> entryPath])]}} : TRUE

\* sftp.service.ts:145-148: the loop over the date folders from the k-th on
RECURSIVE CollectFolders_noBreak(_, _, _, _, _), CollectFolders(_, _, _, _, _)
CollectFolders_noBreak(tree, dateFolders, k, acc, cap) ==
    IF acc.failed \/ k > Len(dateFolders) THEN acc
    ELSE CHOOSE out \in
           {CollectFolders_noBreak(tree, dateFolders, k + 1, next, cap) :
              next \in {ListFilesRecursive(tree, dateFolders[k].path, acc, <<cap>>)}} : TRUE

CollectFolders(tree, dateFolders, k, acc, cap) ==
    IF acc.failed \/ k > Len(dateFolders) \/ Len(acc.files) >= cap THEN acc
    ELSE CHOOSE out \in
           {CollectFolders(tree, dateFolders, k + 1, next, cap) :
              next \in {ListFilesRecursive(tree, dateFolders[k].path, acc, <<cap>>)}} : TRUE

\* sftp.service.ts:132-148: the files gathered on the fallback path or from
\* the date folders, before they are sorted
Gather_carriesOver(tree, remotePath, cap, failAt, found) ==
    LET start == [files |-> IF walk.failed THEN walk.collected ELSE <<>>,
                  calls |-> found.calls,
                  events |-> [k \in 1..Len(found.calls) |-> <<"list", found.calls[k]>>],
                  failAt |-> failAt, failed |-> found.failed]
    IN IF found.failed THEN start
       ELSE IF Len(found.folders) = 0
       THEN ListFilesRecursive(tree, remotePath, start, <<>>)
       ELSE CollectFolders(tree, found.folders, 1, start, cap)

Gather(tree, remotePath, cap, failAt, found) ==
    LET start == [files |-> <<>>, calls |-> found.calls,
                  events |-> [k \in 1..Len(found.calls) |-> <<"list", found.calls[k]>>],
                  failAt |-> failAt, failed |-> found.failed]
    IN IF found.failed THEN start
       ELSE IF Len(found.folders) = 0
       THEN ListFilesRecursive(tree, remotePath, start, <<>>)
       ELSE CollectFolders(tree, found.folders, 1, start, cap)

\* sftp.service.ts:138-160: sort, truncate, warn
Finish(found, acc, sorted, cap) ==
    [files |-> IF acc.failed THEN <<>> ELSE Slice(sorted, cap),
     collected |-> acc.files,
     calls |-> acc.calls,
     events |-> acc.events,
     warned |-> ~acc.failed /\ Len(found.folders) > 0 /\ Len(sorted) > cap,
     dateFolders |-> found.folders,
     failed |-> acc.failed]

\* sftp.service.ts:131-161: one attempt; the record keeps the returned files,
\* the collection before truncation, the client.list calls, the walk's
\* events in order (a path listed, an entry examined, a file pushed), whether
\* the cap warning was logged and whether the attempt threw
ListRecentFiles(tree, remotePath, cap, failAt) ==
    CHOOSE out \in
      UNION {UNION {{Finish(found, acc, sorted, cap) :
                       sorted \in {SortByModifyTime(acc.files)}} :
                    acc \in {Gather(tree, remotePath, cap, failAt, found)}} :
             found \in {ListDateFolders(tree, remotePath, failAt)}} : TRUE

\* the client.list calls at which a failure is injected: the first and the
\* last call of the attempt
FailPoints(tree, remotePath, cap) ==
    {1, Len(ListRecentFiles(tree, remotePath, cap, 0).calls)}

ListInit ==
    /\ remote \in RemoteTrees
    /\ maxFiles \in 0..MaxCap
    /\ lpc = "pending"
    /\ lattempt = 0
    /\ listed = <<>>
    /\ listError = None
    /\ walk = NoWalk
    /\ listCalls = <<>>
    /\ warnings = 0
    /\ state = InitialState
    /\ isConnected = TRUE
    /\ sftpRetry = [maxRetries |-> 1]
    /\ spaces = FALSE
    /\ run = [r \in Runs |-> IdleRun]
    /\ stopPc = "idle"
    /\ metrics = NoMetrics
    /\ scratch = {}
    /\ snapshot = <<>>
    /\ RetryQuiet
    /\ ErrQuiet
    /\ SftpQuiet
    /\ NotifyQuiet

\* sftp.service.ts:109-118 under retry.ts:26: the attempt returned its files
ListAttemptResolves ==
    /\ lpc = "pending"
    /\ \E attemptWalk \in {ListRecentFiles(remote, <<>>, maxFiles, 0)} :
          /\ walk' = attemptWalk
          /\ listed' = attemptWalk.files
          /\ listCalls' = listCalls \o attemptWalk.calls
          /\ warnings' = warnings + (IF attemptWalk.warned THEN 1 ELSE 0)
    /\ lpc' = "resolved"
    /\ UNCHANGED <<remote, maxFiles, lattempt, listError>>
    /\ UNCHANGED <<retryVars, orchVars, errVars, sftpVars, notifyVars>>

\* sftp.service.ts:119-124 under retry.ts:27-76: a client.list call of the
\* attempt rejected; the error is wrapped as SFTP_LIST_FAILED and
\* retryWithBackoff backs off or gives up
ListAttemptRejects(failAt) ==
    /\ lpc = "pending"
    /\ failAt \in FailPoints(remote, <<>>, maxFiles)
    /\ \E attemptWalk \in {ListRecentFiles(remote, <<>>, maxFiles, failAt)},
          error \in {SftpError("SFTP_LIST_FAILED", lattempt + 1)} :
          /\ walk' = attemptWalk
          /\ listCalls' = listCalls \o attemptWalk.calls
          /\ IF RetryGivesUp(error, lattempt, sftpRetry.maxRetries)
             THEN /\ lpc' = "rejected"
                  /\ listError' = AsError(error)
             ELSE /\ lpc' = "sleeping"
                  /\ UNCHANGED listError
    /\ UNCHANGED <<remote, maxFiles, lattempt, listed, warnings>>
    /\ UNCHANGED <<retryVars, orchVars, errVars, sftpVars, notifyVars>>

\* retry.ts:76, 24-26: the back-off elapsed and the next attempt starts
ListBackoffDone ==
    /\ lpc = "sleeping"
    /\ LoopCond(lattempt + 1, sftpRetry.maxRetries)
    /\ lpc' = "pending"
    /\ lattempt' = lattempt + 1
    /\ UNCHANGED <<remote, maxFiles, listed, listError, walk, listCalls, warnings>>
    /\ UNCHANGED <<retryVars, orchVars, errVars, sftpVars, notifyVars>>

ListNext ==
    \/ ListAttemptResolves
    \/ \E failAt \in FailPoints(remote, <<>>, maxFiles) : ListAttemptRejects(failAt)
    \/ ListBackoffDone

SpecList == ListInit /\ [][ListNext]_vars

\* ------------------------------------------------- retryWithBackoff: claims
Fails == SelectSeq(trace, LAMBDA e : e[1] = "fail")

NFails == Len(Fails)

Sleeps == SelectSeq(trace, LAMBDA e : e[1] = "sleep")

OnRetryCalls == SelectSeq(trace, LAMBDA e : e[1] = "onRetry")

\* the claims' notion of a retryable failure: a BaseError with isRetryable,
\* or any thrown value that is not a BaseError
RetryableThrown(e) == (e.cls = "BaseError" /\ e.isRetryable) \/ e.cls # "BaseError"

NonRetryableThrown(e) == e.cls = "BaseError" /\ ~e.isRetryable

AllFailsRetryable == \A i \in 1..NFails : RetryableThrown(Fails[i][3])

\* C1: an operation that fails N <= maxRetries times with retryable errors and
\* then succeeds is invoked exactly N+1 times and the call resolves with the
\* value of the successful invocation; the call never gives up on retryable
\* failures while attempts remain.
C1_SucceedsAfterNFailures ==
    /\ rpc = "resolved" =>
          /\ calls = NFails + 1
          /\ NFails <= options.maxRetries
          /\ trace[Len(trace)] = <<"ok", NFails + 1>>
          /\ result = <<"value", NFails + 1>>
    /\ (rpc = "rejected" /\ AllFailsRetryable) => NFails > options.maxRetries

C1_Witness ==
    /\ rpc = "resolved"
    /\ NFails = 2
    /\ options.maxRetries = 2
    /\ Fails[1][3].cls = "value"
    /\ Fails[2][3].cls = "Error"

\* C2: a failure with a BaseError whose isRetryable is false ends the call at
\* once: it is the last event of the call (no further invocation, no delay, no
\* onRetry), the call rejects with that very error, and when it is the first
\* failure the operation was invoked exactly once.
C2_NonRetryableStopsAtOnce ==
    \A i \in 1..Len(trace) :
        (trace[i][1] = "fail" /\ NonRetryableThrown(trace[i][3])) =>
            /\ i = Len(trace)
            /\ rpc = "rejected"
            /\ rejection = trace[i][3]
            /\ calls = trace[i][2]
            /\ (NFails = 1 => calls = 1)

C2_Witness ==
    /\ rpc = "rejected"
    /\ NFails = 2
    /\ options.maxRetries = 3
    /\ options.onRetry
    /\ NonRetryableThrown(Fails[2][3])

\* C3 as stated: when every attempt fails with a retryable error the operation
\* is invoked exactly maxRetries+1 times and the call rejects with the value
\* thrown by the last invocation, not wrapped or replaced.
C3_Original ==
    (rpc = "rejected" /\ AllFailsRetryable) =>
        /\ NFails = options.maxRetries + 1
        /\ calls = options.maxRetries + 1
        /\ rejection = Fails[NFails][3]

\* C3 amended: as above, and the call rejects with the value thrown by the
\* last invocation itself when that value is an Error instance; a thrown value
\* that is not an Error is replaced by a new Error carrying String(value) as
\* its message.
C3_RejectsWithLastError ==
    (rpc = "rejected" /\ AllFailsRetryable) =>
        /\ NFails = options.maxRetries + 1
        /\ calls = options.maxRetries + 1
        /\ LET thrown == Fails[NFails][3]
           IN IF thrown.cls \in {"Error", "BaseError"}
              THEN rejection = thrown
              ELSE /\ rejection.cls = "Error"
                   /\ rejection.message = thrown.message
                   /\ rejection.obj # thrown.obj

C3_Witness ==
    /\ rpc = "rejected"
    /\ AllFailsRetryable
    /\ options.maxRetries = 2
    /\ NFails = 3
    /\ Fails[3][3].cls = "BaseError"
    /\ Fails[1][3].cls = "Error"

\* C4: the operation is invoked at most maxRetries+1 times, never two
\* invocations are in flight, and invocation k+1 starts only after invocation
\* k failed and the delay that followed that failure has elapsed.
C4_BoundedSequentialAttempts ==
    /\ calls <= options.maxRetries + 1
    /\ inflight <= 1
    /\ \A i \in 1..Len(trace) :
          (trace[i][1] = "invoke" /\ trace[i][2] > 1) =>
              /\ i > 3
              /\ trace[i - 1][1] = "wake"
              /\ \E j \in 1..(i - 3) :
                    /\ trace[j][1] = "fail"
                    /\ trace[j][2] = trace[i][2] - 1
                    /\ trace[i - 2][1] = "sleep"
                    /\ trace[i - 1][2] = trace[i - 2][2]
                    /\ \A m \in (j + 1)..(i - 1) : trace[m][1] \notin {"invoke", "ok", "fail"}

C4_Witness ==
    /\ options.maxRetries = 2
    /\ calls = 3
    /\ rpc = "pending"
    /\ inflight = 1

\* C5: onRetry, when supplied, is called once for each failed attempt that is
\* retried, with that attempt's error and its 1-based number, before the delay
\* starts; never for a success, a non-retryable failure or the failure of the
\* final permitted attempt; never when it is not supplied.
C5_OnRetryCalls ==
    /\ \A i \in 1..Len(trace) :
          (trace[i][1] = "fail" /\ options.onRetry
              /\ \E j \in (i + 1)..Len(trace) : trace[j][1] \in {"sleep", "invoke"}) =>
              /\ trace[i + 1][1] = "onRetry"
              /\ trace[i + 2][1] = "sleep"
    /\ \A i \in 1..Len(trace) :
          trace[i][1] = "onRetry" =>
              /\ options.onRetry
              /\ i > 1
              /\ trace[i - 1][1] = "fail"
              /\ trace[i][3] = trace[i - 1][2]
              /\ LET thrown == trace[i - 1][3]
                 IN /\ IF thrown.cls \in {"Error", "BaseError"}
                       THEN trace[i][2] = thrown
                       ELSE trace[i][2].message = thrown.message
                    /\ ~NonRetryableThrown(thrown)
              /\ trace[i - 1][2] <= options.maxRetries
              /\ i < Len(trace)
              /\ trace[i + 1][1] = "sleep"
    /\ (rpc \in {"resolved", "rejected"}) =>
          Len(OnRetryCalls) = (IF options.onRetry THEN calls - 1 ELSE 0)

C5_Witness ==
    /\ rpc = "rejected"
    /\ options.onRetry
    /\ Len(OnRetryCalls) = 2
    /\ NFails = 3
    /\ OnRetryCalls[1][3] = 1
    /\ OnRetryCalls[2][3] = 2

\* C6: the delay after the failure of attempt index k is delayMs * 2^k when
\* exponentialBackoff is true or omitted and delayMs when it is false; N
\* failures then success wait delayMs * (2^N - 1), resp. N * delayMs, in total
\* (300 for delayMs = 100, N = 2).
C6_BackoffDelays ==
    LET exponential == options.exponentialBackoff \in {"true", "omitted"}
    IN /\ \A j \in 1..Len(Sleeps) :
             Sleeps[j][2] = (IF exponential THEN options.delayMs * Pow2(j - 1)
                             ELSE options.delayMs)
       /\ Len(Sleeps) <= NFails
       /\ rpc = "resolved" =>
             /\ Len(Sleeps) = NFails
             /\ waited = (IF exponential THEN options.delayMs * (Pow2(NFails) - 1)
                          ELSE NFails * options.delayMs)
       /\ (rpc = "resolved" /\ exponential /\ options.delayMs = 100 /\ NFails = 2) =>
             waited = 300

C6_Witness ==
    /\ rpc = "resolved"
    /\ options.exponentialBackoff = "omitted"
    /\ options.delayMs = 100
    /\ NFails = 3
    /\ waited = 700

\* ------------------------------------------- PipelineOrchestrator: claims
\* the latest start() call made on the instance
Latest(r) == run[r].pc # "idle" /\ \A q \in Runs : q > r => run[q].pc = "idle"

\* listFiles has returned its catalog to run r
Listed(r) == run[r].pc \in {"loop", "download", "downloadSleep", "transcode",
                            "transcribe", "upload", "record"}
             \/ (run[r].pc = "resolved" /\ Latest(r))

EventsOf(r, kind) == SelectSeq(run[r].log, LAMBDA e : e[1] = kind)

OutcomesOf(r, outcome) ==
    SelectSeq(run[r].log, LAMBDA e : e[1] = "outcome" /\ e[3] = outcome)

CallsOf(r, name) ==
    SelectSeq(run[r].log, LAMBDA e : e[1] = "call" /\ e[2] = name)

\* what run r has added to the counters since start() was entered
ProcessedBy(r) == state.processedCount - run[r].base.processedCount

FailedBy(r) == state.failedCount - run[r].base.failedCount

\* position of the stop() event in the history of run r, 0 when there is none
StopAt(r) ==
    LET at == {i \in 1..Len(run[r].log) : run[r].log[i][1] = "stop"}
    IN IF at = {} THEN 0 ELSE CHOOSE i \in at : TRUE

\* C7: the failure of an item at any stage is recorded in failedCount and is
\* never rethrown by start(): start() rejects only before the first item, the
\* items are attempted in catalog order, and a run that was not asked to stop
\* resolves only after every catalog item was attempted.
C7_ItemFailureIsolated ==
    \A r \in Runs : Latest(r) =>
        /\ FailedBy(r) = Len(OutcomesOf(r, "failed"))
        /\ run[r].pc = "rejected" => EventsOf(r, "item") = <<>>
        /\ LET items == EventsOf(r, "item")
           IN /\ Len(items) = run[r].idx
              /\ \A i \in 1..Len(items) : items[i][2] = i
        /\ (Len(run[r].log) > 0 /\ run[r].log[Len(run[r].log)] = <<"outcome", run[r].idx, "failed">>)
              => run[r].pc \in {"loop", "resolved"}
        /\ (run[r].pc = "resolved" /\ ~run[r].stopSeen) =>
              /\ run[r].idx = Len(run[r].files)
              /\ Len(EventsOf(r, "outcome")) = Len(run[r].files)

C7_Witness ==
    \E r \in Runs :
        /\ Latest(r)
        /\ run[r].pc = "resolved"
        /\ ~run[r].stopSeen
        /\ Len(run[r].files) = 2
        /\ EventsOf(r, "outcome") = << <<"outcome", 1, "failed">>, <<"outcome", 2, "ok">> >>
        /\ FailedBy(r) = 1

NotSkipped(name) == EndsWith(name, DotWav) /\ ~Includes(name, Playable)

C9_StopAtItemBoundary ==
    \A r \in Runs : (Latest(r) /\ run[r].stopSeen) =>
        LET log == run[r].log
            s == StopAt(r)
            before == {i \in 1..(s - 1) : log[i][1] = "item"}
            mid == {i \in before : \A j \in (i + 1)..(s - 1) : log[j][1] # "outcome"}
        IN /\ s > 0
           /\ state.shouldStop
           /\ \A i \in (s + 1)..Len(log) :
                 /\ log[i][1] # "item"
                 /\ log[i][1] = "stage" => \E m \in mid : log[m][2] = log[i][2]
                 /\ (log[i][1] = "call" /\ log[i][2] = "fastGet") => mid # {}
                 /\ log[i][1] = "outcome" => \E m \in mid : log[m][2] = log[i][2]
           /\ run[r].idx = Cardinality(before)
           /\ Settled(r) =>
                 /\ Len(EventsOf(r, "outcome")) = Cardinality(before)
                 /\ ProcessedBy(r) + FailedBy(r) <= Cardinality(before)
                 /\ ProcessedBy(r) + FailedBy(r)
                       = Cardinality({i \in before : NotSkipped(run[r].files[log[i][2]])})

C9_Witness ==
    \E r \in Runs :
        /\ Latest(r)
        /\ run[r].stopSeen
        /\ run[r].pc = "resolved"
        /\ Len(run[r].files) = 2
        /\ StopAt(r) > 1
        /\ run[r].log[StopAt(r) - 1] = <<"item", 1>>
        /\ run[r].log[Len(run[r].log)] = <<"outcome", 1, "ok">>
        /\ ProcessedBy(r) = 1

\* C10: when connect() gives up (its last permitted attempt failed), start()
\* rejects with the error of that attempt, the catalog was never listed, no
\* item or stage was started, the counters are as they were when start() was
\* entered, and isRunning is false.
C10_ConnectFailureAbortsRun ==
    \A r \in Runs : Latest(r) =>
        LET connects == CallsOf(r, "connect")
            gaveUp == /\ Len(connects) = sftpRetry.maxRetries + 1
                      /\ run[r].pc # "connecting"
                      /\ CallsOf(r, "list") = <<>>
        IN /\ gaveUp =>
                 /\ run[r].pc = "rejected"
                 /\ run[r].err.code \in {"SFTP_CONNECTION_FAILED", "SFTP_AUTH_FAILED"}
           /\ (run[r].pc = "rejected"
                 /\ run[r].err.code \in {"SFTP_CONNECTION_FAILED", "SFTP_AUTH_FAILED"}) =>
                 /\ run[r].err.cls = "BaseError"
                 /\ run[r].err.obj = Len(connects)
                 /\ CallsOf(r, "list") = <<>>
                 /\ EventsOf(r, "item") = <<>>
                 /\ EventsOf(r, "stage") = <<>>
                 /\ CallsOf(r, "fastGet") = <<>>
                 /\ ProcessedBy(r) = 0
                 /\ FailedBy(r) = 0
                 /\ ~state.isRunning

C10_Witness ==
    \E r \in Runs :
        /\ Latest(r)
        /\ run[r].pc = "rejected"
        /\ run[r].err.code = "SFTP_CONNECTION_FAILED"
        /\ sftpRetry.maxRetries = 1
        /\ Len(CallsOf(r, "connect")) = 2
        /\ ~state.isRunning

\* C11: for the single start() call of the instance, isRunning is false
\* before the call, true from the moment start() is entered until it
\* settles, and false once it has resolved or rejected, whatever the outcome;
\* a step of stop() (the call itself or the end of its disconnect) never
\* changes isRunning.
C11_RunningFlag ==
    /\ [](/\ run[1].pc = "idle" => ~state.isRunning
          /\ Active(1) => state.isRunning
          /\ Settled(1) => ~state.isRunning)
    /\ [][(StopCall \/ StopEndSettles) => state'.isRunning = state.isRunning]_vars

C11_Witness ==
    /\ run[1].pc = "resolved"
    /\ run[1].stopSeen
    /\ state.shouldStop
    /\ ~state.isRunning
    /\ Len(run[1].files) = 2
    /\ run[1].idx = 1

\* C12: when start() completes normally (every catalog item iterated, stop()
\* never called) the connection the run opened is closed by the time start()
\* returns.
C12_ClosedOnNormalCompletion ==
    (/\ run[1].pc = "resolved"
     /\ ~run[1].stopSeen
     /\ ~state.shouldStop
     /\ run[1].idx = Len(run[1].files)) => ~isConnected

\* C13: for every interleaving of one stop() call with the run in progress,
\* once both stop() and start() have returned the connection is closed.
C13_StopClosesConnection ==
    (/\ Settled(1)
     /\ run[1].stopSeen
     /\ stopPc = "idle") => ~isConnected

\* C19: a connect() that rejects with SFTP_AUTH_FAILED made exactly one
\* connection attempt and its error is not retryable, whatever maxRetries is;
\* an error of any other SFTP failure kind is retryable.
C19_AuthFailureNotRetried ==
    \A r \in Runs : run[r].pc = "rejected" =>
        /\ run[r].err.code = "SFTP_AUTH_FAILED" =>
              /\ ~run[r].err.isRetryable
              /\ run[r].err.obj = 1
        /\ run[r].err.code \in {"SFTP_CONNECTION_FAILED", "SFTP_LIST_FAILED"} =>
              run[r].err.isRetryable

\* the stages of processRecording in order
StageOrder ==
    IF spaces THEN <<"download", "transcode", "transcribe", "upload", "record">>
    ELSE <<"download", "transcode", "transcribe", "record">>

\* a stage of the current item of run r is executing or suspended
InFlight(r) ==
    run[r].pc \in {"download", "downloadSleep", "transcode", "transcribe", "upload", "record"}

Stages(r) == SelectSeq(run[r].log, LAMBDA e : e[1] = "stage")

Progress(r) == SelectSeq(run[r].log, LAMBDA e : e[1] \in {"item", "outcome"})

\* C23: once the outcome of an item is recorded, whether success or failure
\* and with or without object storage, no local scratch file of the item
\* remains.
C23_NoScratchAfterOutcome ==
    \A r \in Runs : (run[r].pc \in {"loop", "resolved"}) => scratch = {}

\* C24: the metrics counters always equal processedCount and failedCount.
C24_MetricsFollowCounters ==
    /\ metrics.success = state.processedCount
    /\ metrics.failure = state.failedCount

\* C28: the stages started for the item in flight are a prefix of the fixed
\* order (with upload exactly when object storage is configured) and the
\* executing stage is the last one started; nothing of an item is started
\* before the outcome of the item before it is recorded, also during a
\* retry back-off; and a step that counts a failure leaves no stage of any
\* item running.
C28_StrictSequencing ==
    /\ [](\A r \in Runs :
            LET stages == Stages(r)
                progress == Progress(r)
                idx == run[r].idx
            IN /\ Len(stages) <= Len(StageOrder)
               /\ \A k \in 1..Len(stages) : stages[k] = <<"stage", idx, StageOrder[k]>>
               /\ InFlight(r) =>
                     /\ Len(stages) >= 1
                     /\ stages[Len(stages)][3] =
                          (IF run[r].pc = "downloadSleep" THEN "download" ELSE run[r].pc)
               /\ ~InFlight(r) => stages = <<>>
               /\ Len(progress) = 2 * idx - (IF InFlight(r) THEN 1 ELSE 0)
               /\ \A i \in 1..idx :
                     /\ progress[2 * i - 1] = <<"item", i>>
                     /\ 2 * i <= Len(progress) =>
                           /\ progress[2 * i][1] = "outcome"
                           /\ progress[2 * i][2] = i)
    /\ [][state'.failedCount # state.failedCount =>
            \A r \in Runs : ~InFlight(r)' /\ Stages(r)' = <<>>]_vars

C28_Witness ==
    /\ run[1].pc = "downloadSleep"
    /\ run[1].idx = 2
    /\ spaces
    /\ Progress(1) = << <<"item", 1>>, <<"outcome", 1, "failed">>, <<"item", 2>> >>
    /\ state.failedCount = 1

\* the outcomes of one kind recorded in the history of run r
Outcomes(r, kind) ==
    Len(SelectSeq(run[r].log, LAMBDA e : e[1] = "outcome" /\ e[3] = kind))

Counters(st) == <<st.processedCount, st.failedCount>>

\* C25: over the lifetime of one instance processedCount and failedCount
\* never decrease; a step of start() or stop() leaves them as they are; a
\* second start() is entered with the counters holding the outcomes of the
\* first run, and the second run counts on from them.
C25_CountersNeverReset ==
    /\ [][/\ state'.processedCount >= state.processedCount
           /\ state'.failedCount >= state.failedCount]_vars
    /\ [][(Start(1) \/ Start(2) \/ StopCall \/ StopEndSettles) =>
             Counters(state') = Counters(state)]_vars
    /\ [][Start(2) => Counters(state) = <<Outcomes(1, "ok"), Outcomes(1, "failed")>>]_vars
    /\ [](\A r \in Runs : run[r].pc # "idle" /\ (r = 1 => run[2].pc = "idle") =>
            /\ state.processedCount = run[r].base.processedCount + Outcomes(r, "ok")
            /\ state.failedCount = run[r].base.failedCount + Outcomes(r, "failed"))

C25_Witness ==
    /\ run[1].pc = "resolved"
    /\ run[2].pc = "resolved"
    /\ run[2].base.processedCount = 1
    /\ run[2].base.failedCount = 0
    /\ state.processedCount = 1
    /\ state.failedCount = 1

\* C26: the value getState() returned keeps the four fields as they were at
\* the call whatever the orchestrator does later; a modification of it by
\* the caller leaves the orchestrator's state as it is; and getState()
\* changes nothing but what its caller holds.
C26_ReadOnlySnapshot ==
    /\ [](snapshot # <<>> =>
            /\ DOMAIN Deref(snapshot[1]) =
                 {"isRunning", "shouldStop", "processedCount", "failedCount"}
            /\ ~snapshot[1].touched => Deref(snapshot[1]) = snapshot[1].at)
    /\ [][GetState => /\ Deref(snapshot'[1]) = state
                      /\ state' = state
                      /\ UNCHANGED <<isConnected, run, stopPc, scratch>>]_vars
    /\ [][\A m \in Modifications : ModifySnapshot(m[1], m[2]) =>
             /\ state' = state
             /\ Deref(snapshot'[1])[m[1]] = m[2]]_vars

C26_Witness ==
    /\ snapshot # <<>>
    /\ snapshot[1].touched
    /\ snapshot[1].at.isRunning
    /\ snapshot[1].at.processedCount = 0
    /\ Deref(snapshot[1]).processedCount = 7
    /\ state.processedCount = 1
    /\ ~state.isRunning

\* C31: once start() is entered it eventually settles with isRunning false,
\* for every catalog, every pattern of failures and every timing of stop(),
\* provided every collaborator call and back-off delay returns or fails.
C31_RunEnds ==
    (run[1].pc # "idle") ~> (Settled(1) /\ ~state.isRunning)

C31_Witness ==
    /\ run[1].pc = "resolved"
    /\ ~state.isRunning
    /\ run[1].stopSeen
    /\ Len(run[1].files) = 2
    /\ run[1].idx = 1
    /\ state.failedCount = 1
    /\ sftpRetry.maxRetries = 1

\* run r has just issued a remote-store call (client.list or client.fastGet)
NewRemoteCall(r) ==
    /\ Len(run'[r].log) > Len(run[r].log)
    /\ run'[r].log[Len(run'[r].log)][1] = "call"
    /\ run'[r].log[Len(run'[r].log)][2] \in {"list", "fastGet"}

\* C35: once stop() has closed the connection the run had opened, the run
\* issues no further client.list or client.fastGet call.
C35_NoCallAfterClose ==
    [][\A r \in Runs :
         (/\ run[r].stopSeen
          /\ ~isConnected
          /\ stopPc = "idle"
          /\ run[r].pc \notin {"idle", "ensureDirs", "connecting", "connectSleep"})
         => ~NewRemoteCall(r)]_vars

C34_RunningWhileExecuting ==
    \A r \in Runs :
        /\ InFlight(r) => state.isRunning
        /\ (run[r].stopSeen /\ Active(r)) => state.shouldStop

\* C36: start() clears the stop flag on entry, so a run during which no
\* stop() was issued never finds the flag set; and a run during which
\* stop() was issued takes no further item: its next visit of the loop
\* head ends the run.
C36_StopFlagPerRun ==
    /\ [][\A r \in Runs : (run[r].pc = "idle" /\ run'[r].pc # "idle") =>
             ~state'.shouldStop]_vars
    /\ [](\A r \in Runs : (Active(r) /\ ~run[r].stopSeen) => ~state.shouldStop)
    /\ [][\A r \in Runs :
            (run[r].stopSeen /\ run[r].pc = "loop" /\ run'[r].pc # "loop") =>
                run'[r].pc = "resolved"]_vars

\* ------------------------------------------------- SftpService: claims
\* the error code of a method's failures
FailureCode(op) ==
    CASE op = "connect" -> "SFTP_CONNECTION_FAILED"
      [] op = "listFiles" -> "SFTP_LIST_FAILED"
      [] op = "downloadFile" -> "SFTP_DOWNLOAD_FAILED"

\* the context keeps the host (connect) or the path (listFiles,
\* downloadFile) and the message of the client error of the last attempt
KeepsOrigin(e) ==
    /\ "originalError" \in DOMAIN e.context
    /\ e.context.originalError = sess.raw[1].message
    /\ IF sess.op = "connect"
       THEN "host" \in DOMAIN e.context /\ e.context.host = SftpConfig.host
       ELSE "remotePath" \in DOMAIN e.context /\ e.context.remotePath = sess.target

\* a call whose client call failed on every attempt has rejected
RejectsWhenAllFail ==
    (sess.op \in {"connect", "listFiles", "downloadFile"}
       /\ sess.fails = sftpRetry.maxRetries + 1) => sess.pc = "rejected"

C30_SessionState ==
    /\ [](/\ sess.op = "connect" =>
               /\ sess.pc = "resolved" => IsClientConnected
               /\ sess.pc \in {"sleeping", "rejected"} => ~IsClientConnected
          /\ sess.op = "disconnect" =>
               /\ sess.pc \in {"calling", "resolved"}
               /\ sess.pc = "resolved" => ~IsClientConnected)
    /\ [][(SessConnect /\ IsClientConnected) =>
             /\ clientCalls' = <<>>
             /\ sess'.pc = "resolved"
             /\ IsClientConnected']_vars
    /\ [][(SessDisconnect /\ ~IsClientConnected) =>
             /\ clientCalls' = <<>>
             /\ sess'.pc = "resolved"
             /\ ~IsClientConnected']_vars

C30_Witness ==
    /\ sess.op = "disconnect"
    /\ sess.pc = "resolved"
    /\ sess.endThrew
    /\ clientCalls = <<"end">>
    /\ ~IsClientConnected

\* --------------------------------------------------- listFiles: claims
\* every regular file of the tree whose extension is .wav in any letter case
AllAudio(tree) ==
    UNION {{[name |-> tree[p][i].name, size |-> tree[p][i].size,
             modifyTime |-> tree[p][i].modifyTime,
             remotePath |-> Append(p, tree[p][i].name)] :
            i \in {k \in 1..Len(tree[p]) :
                     tree[p][k].type = "-" /\ CatalogAccepts(tree[p][k].name)}} :
           p \in DOMAIN tree}

\* the second-level directories whose name is a date
DateFolderPaths(tree) == {p \in DOMAIN tree : Len(p) = 2 /\ p[2] \in DateNames}

UnderDateFolder(tree, file) ==
    /\ Len(file.remotePath) > 2
    /\ SubSeq(file.remotePath, 1, 2) \in DateFolderPaths(tree)

DateAudio(tree) == {file \in AllAudio(tree) : UnderDateFolder(tree, file)}

ListedSet == {listed[i] : i \in 1..Len(listed)}

\* <<a, b>>: the date of folder name a is later than the date of b
LaterDate ==
    {<<Date_2024_11_03, Date_11_02_2024>>, <<Date_2024_11_03, Date_11_01_2024>>,
     <<Date_11_02_2024, Date_11_01_2024>>}

\* C14: listFiles never returns more than maxFiles items, on the date-folder
\* path and on the fallback path.
C14_AtMostMaxFiles ==
    lpc = "resolved" => Len(listed) <= maxFiles

C14_Witness ==
    /\ lpc = "resolved"
    /\ DateFolderPaths(remote) = {}
    /\ maxFiles = 2
    /\ Cardinality(AllAudio(remote)) > 2
    /\ Len(walk.collected) > 2
    /\ Len(listed) = 2

\* C15 as stated: of two adjacent items of the result the earlier one has a
\* strictly greater modifyTime.
C15_Original ==
    lpc = "resolved" =>
        \A i \in 1..(Len(listed) - 1) : listed[i].modifyTime > listed[i + 1].modifyTime

\* C15 amended: of two adjacent items of the result the earlier one has a
\* modifyTime greater than or equal to that of the later one.
C15_SortedDescending ==
    lpc = "resolved" =>
        \A i \in 1..(Len(listed) - 1) : listed[i].modifyTime >= listed[i + 1].modifyTime

C15_Witness ==
    /\ lpc = "resolved"
    /\ Len(listed) = 2
    /\ Len(walk.collected) = 2
    /\ walk.collected[1].modifyTime < walk.collected[2].modifyTime
    /\ listed[1] = walk.collected[2]
    /\ listed[2] = walk.collected[1]

C17_DateFolderListing ==
    (lpc = "resolved" /\ DateFolderPaths(remote) # {}) =>
        LET visit == walk.dateFolders
            under(k) == {f \in AllAudio(remote) :
                           /\ Len(f.remotePath) > 2
                           /\ SubSeq(f.remotePath, 1, 2) = visit[k].path}
        IN /\ {visit[k].path : k \in 1..Len(visit)} = DateFolderPaths(remote)
           /\ \A k, l \in 1..Len(visit) :
                 k < l => <<visit[l].path[2], visit[k].path[2]>> \notin LaterDate
           /\ ListedSet \subseteq DateAudio(remote)
           /\ Len(listed) = IF maxFiles < Cardinality(DateAudio(remote))
                            THEN maxFiles ELSE Cardinality(DateAudio(remote))
           /\ \A k, l \in 1..Len(visit) :
                 (k < l /\ under(l) \cap ListedSet # {}) => under(k) \subseteq ListedSet
           /\ (remote = RemoteTree(ScenarioShape) /\ maxFiles = 2) =>
                 {f.remotePath : f \in ListedSet} =
                     {<<Campaign1, Date_11_02_2024, FileName(1)>>,
                      <<Campaign1, Date_11_02_2024, FileName(2)>>}

C17_Witness ==
    /\ lpc = "resolved"
    /\ remote = RemoteTree(ScenarioShape)
    /\ maxFiles = 2
    /\ Len(listed) = 2
    /\ listed[1].remotePath = <<Campaign1, Date_11_02_2024, FileName(2)>>
    /\ Len(walk.dateFolders) = 2

\* C18: on the date-folder path, whenever the date folders hold more than
\* maxFiles audio files (so that the cap leaves some of them out), listFiles
\* has logged the 'listing capped' warning when it returns its result.
C18_CapWarning ==
    (/\ lpc = "resolved"
     /\ DateFolderPaths(remote) # {}
     /\ Cardinality(DateAudio(remote)) > maxFiles) => warnings >= 1

\* every regular-file entry of the tree, whatever its extension
AllRegular(tree) ==
    UNION {{[name |-> tree[p][i].name, size |-> tree[p][i].size,
             modifyTime |-> tree[p][i].modifyTime,
             remotePath |-> Append(p, tree[p][i].name)] :
            i \in {k \in 1..Len(tree[p]) : tree[p][k].type = "-"}} :
           p \in DOMAIN tree}

\* C21: when the listed directory has no date folders below it and the cap
\* is not reached, listFiles returns one FileInfo for every regular-file
\* entry of the listed directory (file1.wav and file2.mp3 in the unit test),
\* copying name, size and modifyTime with remotePath the listed path joined
\* with the name, and none for a directory entry.
C21_EveryRegularFileListed ==
    (/\ lpc = "resolved"
     /\ DateFolderPaths(remote) = {}
     /\ Cardinality(AllRegular(remote)) <= maxFiles) =>
        /\ \A f \in AllRegular(remote) : Len(f.remotePath) = 1 => f \in ListedSet
        /\ \A f \in ListedSet : f.remotePath \notin DOMAIN remote

\* positions of the walk's events of one kind
EventsAt(kind) == {k \in 1..Len(walk.events) : walk.events[k][1] = kind}

\* C27: within one listFiles call no path is passed to client.list twice: a
\* list call that failed is the only one issued again, and the list calls
\* that succeeded before it are not repeated.
C27_OnlyFailedCallRetried ==
    \A k, l \in 1..Len(listCalls) :
        (k < l /\ listCalls[k] = listCalls[l]) =>
            /\ l = k + 1
            /\ k = Len(listCalls) - Len(walk.calls)

\* C29: on the date-folder path, once maxFiles files are collected the walk
\* is over: after the push that reaches maxFiles no entry is examined and no
\* path is listed, and with maxFiles = 0 nothing follows the listing of the
\* base path and of the category folders.
C29_ShortCircuit ==
    (lpc = "resolved" /\ DateFolderPaths(remote) # {}) =>
        LET pushes == EventsAt("push")
            discovery == 1 + Cardinality({i \in 1..Len(remote[<<>>]) :
                                            remote[<<>>][i].type = "d"})
        IN /\ Cardinality(pushes) <= maxFiles
           /\ Cardinality(pushes) = maxFiles =>
                 IF maxFiles = 0 THEN Len(walk.events) = discovery
                 ELSE walk.events[Len(walk.events)][1] = "push"

C29_Witness ==
    /\ lpc = "resolved"
    /\ Len(walk.dateFolders) = 2
    /\ maxFiles = 2
    /\ Cardinality(DateAudio(remote)) = 4
    /\ Cardinality(EventsAt("push")) = 2
    /\ Cardinality(EventsAt("list")) = 3
    /\ walk.events[Len(walk.events)][1] = "push"

\* the number of files pushed by the first k events of the walk
PushedBy(k) == Cardinality({j \in EventsAt("push") : j <= k})

\* C32: on the date-folder path the collection never holds more than
\* maxFiles files at any point of an attempt's walk, and the truncation of
\* the sorted collection removes nothing: the result holds every collected
\* file.
C32_CollectionWithinCap ==
    DateFolderPaths(remote) # {} =>
        /\ \A k \in 1..Len(walk.events) : PushedBy(k) <= maxFiles
        /\ Len(walk.collected) = PushedBy(Len(walk.events))
        /\ lpc = "resolved" =>
              /\ Len(listed) = Len(walk.collected)
              /\ ListedSet = {walk.collected[i] : i \in 1..Len(walk.collected)}

C32_Witness ==
    /\ lpc = "resolved"
    /\ Len(walk.dateFolders) = 2
    /\ maxFiles = 1
    /\ Cardinality(DateAudio(remote)) = 4
    /\ Len(walk.collected) = 1
    /\ Len(listed) = 1

\* C33: the result of listFiles holds each remotePath at most once, also
\* when an earlier attempt of the call failed midway after collecting
\* files: the result is made of the files of the last attempt only.
C33_UniqueRemotePaths ==
    lpc = "resolved" =>
        /\ \A i, j \in 1..Len(listed) :
              listed[i].remotePath = listed[j].remotePath => i = j
        /\ Len(walk.collected) = Cardinality({f.remotePath : f \in AllAudio(remote)}
                                   \cap {walk.collected[i].remotePath :
                                           i \in 1..Len(walk.collected)})

C33_Witness ==
    /\ lpc = "resolved"
    /\ lattempt = 1
    /\ Len(walk.dateFolders) = 2
    /\ Len(listCalls) = 2 * Len(walk.calls)
    /\ maxFiles = 2
    /\ Len(listed) = 2
    /\ SubSeq(listed[1].remotePath, 1, 2) # SubSeq(listed[2].remotePath, 1, 2)

\* the date folder a file lies under
FolderOf(file) == SubSeq(file.remotePath, 1, 2)

\* C38 as stated: on the date-folder path every returned item has a
\* modifyTime greater than or equal to that of every audio file under a
\* date folder that was not returned.
C38_Original ==
    (lpc = "resolved" /\ DateFolderPaths(remote) # {}) =>
        \A g \in ListedSet : \A f \in DateAudio(remote) \ ListedSet :
            g.modifyTime >= f.modifyTime

\* C38 (amended): on the date-folder path the result is made of maxFiles
\* audio files of the most recent date folders: every returned item lies
\* under a date folder whose date is not earlier than that of the date
\* folder of any audio file that was not returned; modifyTime decides only
\* the order of the returned items.
C38_MostRecentFolders ==
    (lpc = "resolved" /\ DateFolderPaths(remote) # {}) =>
        /\ Len(listed) = IF maxFiles < Cardinality(DateAudio(remote))
                         THEN maxFiles ELSE Cardinality(DateAudio(remote))
        /\ \A g \in ListedSet : \A f \in DateAudio(remote) \ ListedSet :
              <<FolderOf(f)[2], FolderOf(g)[2]>> \notin LaterDate
        /\ \A i \in 1..(Len(listed) - 1) :
              listed[i].modifyTime >= listed[i + 1].modifyTime

C38_Witness ==
    /\ lpc = "resolved"
    /\ Len(walk.dateFolders) = 2
    /\ maxFiles = 1
    /\ Len(listed) = 1
    /\ \E f \in DateAudio(remote) \ ListedSet :
          /\ FolderOf(f) = FolderOf(listed[1])
          /\ f.modifyTime > listed[1].modifyTime
    /\ \E f \in DateAudio(remote) \ ListedSet :
          <<FolderOf(listed[1])[2], FolderOf(f)[2]>> \in LaterDate

\* ------------------------------------------- NotificationService: claims
\* the delays slept so far are 1000 * 2^0, 1000 * 2^1, ... in this order
SleptAsSpecified == \A i \in 1..Len(slack.slept) : slack.slept[i] = 1000 * (2 ^ (i - 1))

\* the attempts whose response was ok
OkAttempts == {i \in 1..Len(slack.outcomes) : slack.outcomes[i] = "ok"}

\* C39: sendToSlack never rejects; with a webhook it makes at most
\* `retries` POST attempts, returns after the first ok response, sleeps
\* 1000 * 2^attempt ms after each failed attempt but the last, and returns
\* normally when every attempt failed or threw; a disabled service makes no
\* POST from notifySuccess, notifyFailure or notifyDailySummary.
C39_SendToSlackNeverRejects ==
    /\ slack.pc # "rejected"
    /\ slack.posts <= slack.retries
    /\ SleptAsSpecified
    /\ OkAttempts # {} =>
          /\ OkAttempts = {Len(slack.outcomes)}
          /\ slack.pc = "returned"
          /\ slack.posts = Len(slack.outcomes)
    /\ slack.pc = "fetch" =>
          /\ slack.posts = Len(slack.outcomes) + 1
          /\ Len(slack.slept) = Len(slack.outcomes)
    /\ slack.pc = "sleep" =>
          /\ Len(slack.slept) = slack.posts
          /\ slack.posts < slack.retries
    /\ (slack.pc = "returned" /\ slack.method # "none" /\ slack.webhook /\ OkAttempts = {}) =>
          /\ slack.posts = slack.retries
          /\ Len(slack.outcomes) = slack.retries
          /\ Len(slack.slept) = IF slack.retries = 0 THEN 0 ELSE slack.retries - 1
    /\ (slack.pc = "returned" /\ OkAttempts # {}) =>
          Len(slack.slept) = Len(slack.outcomes) - 1
    /\ (slack.method \in NotifyMethods /\ ~slack.isEnabled) => slack.posts = 0
    /\ slack.method \in NotifyMethods => slack.retries \in {0, DefaultRetries}

\* every one of three attempts failed or threw and the call returned
C39_Witness ==
    /\ slack.pc = "returned"
    /\ slack.method = "notifyFailure"
    /\ slack.outcomes = <<"notOk", "threw", "threw">>
    /\ slack.slept = <<1000, 2000>>
    /\ slack.posts = 3

\* ------------------------------------------------- error taxonomy: claims
ApiErrors == {i \in 1..Len(errs) : errs[i].context.factory = "apiError"}

\* C20 as stated: fileTooLarge and invalidFormat errors are non-retryable, and
\* an apiError (transcription or record keeping) is retryable exactly when
\* its status code is absent, is >= 500, or is 429.
C20_Original ==
    \A i \in 1..Len(errs) :
        IF i \in ApiErrors
        THEN LET sc == errs[i].context.statusCode
             IN errs[i].isRetryable <=>
                    (IF sc = <<>> THEN TRUE ELSE sc[1] >= 500 \/ sc[1] = 429)
        ELSE ~errs[i].isRetryable

\* C20 amended: fileTooLarge and invalidFormat errors are non-retryable for
\* every argument; an apiError is retryable exactly when its status code is
\* absent, is 0, is >= 500, or is 429; and no step changes an error object
\* that has been constructed.
C20_RetryabilityFixed ==
    /\ [](\A i \in 1..Len(errs) :
            IF i \in ApiErrors
            THEN LET sc == errs[i].context.statusCode
                 IN errs[i].isRetryable <=>
                        (IF sc = <<>> THEN TRUE
                         ELSE sc[1] = 0 \/ sc[1] >= 500 \/ sc[1] = 429)
            ELSE /\ errs[i].code \in {"FILE_TOO_LARGE", "INVALID_FORMAT"}
                 /\ ~errs[i].isRetryable)
    /\ [][\A i \in 1..Len(errs) : errs'[i] = errs[i]]_vars

C20_Witness ==
    /\ Len(errs) = 2
    /\ errs[1].code = "TRANSCRIPTION_API_ERROR"
    /\ errs[1].context.statusCode = <<429>>
    /\ errs[1].isRetryable
    /\ errs[2].code = "NOTION_API_ERROR"
    /\ errs[2].context.statusCode = <<404>>
    /\ ~errs[2].isRetryable
    /\ json # <<>>
    /\ json.isRetryable

====
